---- MODULE Spec2Model ----
(***************************************************************************)
(* A model of gha (github-app-cli): the credential pipeline that signs an  *)
(* assertion, resolves the installation, exchanges the assertion for an    *)
(* installation token and forwards the command to gh.                      *)
(*                                                                         *)
(* Go strings are TLA+ strings; TLC evaluates Len, \o and SubSeq on them,  *)
(* so prefixes, trimming and parsing are computed character by character.  *)
(***************************************************************************)
EXTENDS Integers, Sequences, FiniteSets, TLC

VARIABLES
    rpc,            \* runProxy's position in the resolution steps
    args,           \* runProxy's argument list (args[1:] of run)
    flagOverride,   \* installationOverride parsed from the flags
    ghArgs,         \* the remaining arguments, handed to gh
    ghaInstallationID, \* os.Getenv("GHA_INSTALLATION_ID")
    ghaOrg,         \* os.Getenv("GHA_ORG")
    envOverride,    \* installationOverride read from the environment
    configID,       \* cfg.InstallationID
    listing,        \* the listing API's answer, NotCalled when it was not asked
    resolved,       \* resolveInstallation's result
    jpc,            \* GenerateJWT's position
    jwtAppID,       \* GenerateJWT's appID
    privateKeyFile, \* what is stored at privateKeyPath
    clockNow,       \* time.Now() as GenerateJWT reads it
    jwtResult,      \* GenerateJWT's result
    xpc,            \* GetInstallationToken's position
    exchRequests,   \* the requests sent to the token-exchange endpoint
    exchResponse,   \* what the endpoint and the transport answered
    exchResult,     \* GetInstallationToken's result
    fpc,            \* the forwarder's position
    fwdCall,        \* the forwarder's inputs: backend, args, token
    environ,        \* os.Environ()
    ghInstalled,    \* whether exec.LookPath finds gh, and how gh runs
    lookPathCalls,  \* calls of exec.LookPath so far
    child,          \* the process launched, NoChild when none was
    fwdResult,      \* what the forwarder returned, or the exit of the process
    cpc,            \* the position of the configuration steps
    userHome,       \* os.UserHomeDir(): the home directory, "" when it is unknown
    cfgFile,        \* what is stored at <home>/.config/github-app-cli/config.yaml
    stdinLines,     \* the lines runConfigure finds on stdin
    configured,     \* runConfigure's result
    loaded,         \* config.Load's result
    pc,             \* run's position
    osArgs,         \* run's args (os.Args)
    goos,           \* the build: which Exec was compiled in
    updateResult,   \* what update.Check returned to checkForUpdate
    stdout,         \* what run has written to stdout
    stderr,         \* what run has written to stderr
    exitStatus,     \* the exit status of the process, NotExited while it runs
    version,        \* main.version, the version the binary was built as
    updateCache,    \* what is stored at <config dir>/update-check.json
    wallClock,      \* the wall clock, in seconds
    fetchCount,     \* requests for the latest release so far
    checkCount,     \* calls of update.Check so far
    lastCheck       \* what the last call of update.Check did and returned

resolveVars == <<rpc, args, flagOverride, ghArgs, ghaInstallationID, ghaOrg,
                 envOverride, configID, listing, resolved>>

jwtVars == <<jpc, jwtAppID, privateKeyFile, clockNow, jwtResult>>

exchVars == <<xpc, exchRequests, exchResponse, exchResult>>

fwdVars == <<fpc, fwdCall, environ, ghInstalled, lookPathCalls, child, fwdResult>>

cfgVars == <<cpc, userHome, cfgFile, stdinLines, configured, loaded>>

runVars == <<pc, osArgs, goos, updateResult, stdout, stderr, exitStatus>>

updVars == <<version, updateCache, wallClock, fetchCount, checkCount, lastCheck>>

vars == <<resolveVars, jwtVars, exchVars, fwdVars, cfgVars, runVars, updVars>>

-----------------------------------------------------------------------------
(* Bounds of the model *)

MaxArgs == 2

-----------------------------------------------------------------------------
(* strings and strconv, as the code uses them *)

CharAt(s, i) == SubSeq(s, i, i)

HasPrefix(s, p) == Len(s) >= Len(p) /\ SubSeq(s, 1, Len(p)) = p

TrimPrefix(s, p) == IF HasPrefix(s, p) THEN SubSeq(s, Len(p) + 1, Len(s)) ELSE s

UpperLetters == "ABCDEFGHIJKLMNOPQRSTUVWXYZ"
LowerLetters == "abcdefghijklmnopqrstuvwxyz"

\* The simple case folding of one ASCII character.
FoldChar(c) ==
    IF \E k \in 1..26 : CharAt(UpperLetters, k) = c
    THEN CharAt(LowerLetters, CHOOSE k \in 1..26 : CharAt(UpperLetters, k) = c)
    ELSE c

EqualFold(s, t) ==
    /\ Len(s) = Len(t)
    /\ \A i \in 1..Len(s) : FoldChar(CharAt(s, i)) = FoldChar(CharAt(t, i))

DecimalDigits == "0123456789"

IsDigit(c) == \E d \in 0..9 : CharAt(DecimalDigits, d + 1) = c

DigitVal(c) == CHOOSE d \in 0..9 : CharAt(DecimalDigits, d + 1) = c

RECURSIVE StripLeadingZeros(_)
StripLeadingZeros(s) ==
    IF Len(s) > 0 /\ CharAt(s, 1) = "0"
    THEN StripLeadingZeros(SubSeq(s, 2, Len(s)))
    ELSE s

RECURSIVE DigitsValue(_, _)
DigitsValue(s, acc) ==
    IF s = "" THEN acc
    ELSE DigitsValue(SubSeq(s, 2, Len(s)), acc * 10 + DigitVal(CharAt(s, 1)))

\* The longest digit string an int64 can hold: 9223372036854775807.
Int64Digits == 19

\* strconv.ParseInt(s, 10, 64): an optional sign, then decimal digits only;
\* the empty string, a bare sign and any other character are syntax errors,
\* more than Int64Digits significant digits is a range error.  The inputs of
\* the model have at most 9 significant digits or more than Int64Digits.
ParseInt(s) ==
    LET signed == Len(s) > 0 /\ CharAt(s, 1) \in {"+", "-"}
        digits == IF signed THEN SubSeq(s, 2, Len(s)) ELSE s
        sig    == StripLeadingZeros(digits)
    IN  IF digits = "" \/ \E i \in 1..Len(digits) : ~IsDigit(CharAt(digits, i))
        THEN [ok |-> FALSE, val |-> 0, err |-> "syntax"]
        ELSE IF Len(sig) > Int64Digits
        THEN [ok |-> FALSE, val |-> 0, err |-> "range"]
        ELSE [ok |-> TRUE,
              val |-> IF CharAt(s, 1) = "-" THEN 0 - DigitsValue(sig, 0)
                      ELSE DigitsValue(sig, 0),
              err |-> "none"]

-----------------------------------------------------------------------------
(* cmd.go: installation selection *)

\* The zero value of installationOverride.
NoOverride == [id |-> 0, org |-> ""]

NoError == [kind |-> "none"]

\* Mutant of acceptID: the sign of the parsed id is not checked.
acceptID_AnyInteger(p) == p.ok

\* if id, err := strconv.ParseInt(...); err == nil && id > 0
acceptID(p) == p.ok /\ p.val > 0

\* Mutant of parseFlagsFrom: an id that is already set is not replaced.
RECURSIVE parseFlagsFrom_FirstIDWins(_, _, _, _)
parseFlagsFrom_FirstIDWins(a, i, override, remaining) ==
    IF i > Len(a) THEN [override |-> override, remaining |-> remaining]
    ELSE IF a[i] = "--installation-id" /\ i + 1 <= Len(a) THEN
        LET p == ParseInt(a[i + 1])
        IN  parseFlagsFrom_FirstIDWins(a, i + 2,
                IF acceptID(p) /\ override.id = 0
                THEN [override EXCEPT !.id = p.val] ELSE override,
                remaining)
    ELSE IF HasPrefix(a[i], "--installation-id=") THEN
        LET p == ParseInt(TrimPrefix(a[i], "--installation-id="))
        IN  parseFlagsFrom_FirstIDWins(a, i + 1,
                IF acceptID(p) /\ override.id = 0
                THEN [override EXCEPT !.id = p.val] ELSE override,
                remaining)
    ELSE IF a[i] = "--org" /\ i + 1 <= Len(a) THEN
        parseFlagsFrom_FirstIDWins(a, i + 2, [override EXCEPT !.org = a[i + 1]], remaining)
    ELSE IF HasPrefix(a[i], "--org=") THEN
        parseFlagsFrom_FirstIDWins(a, i + 1,
            [override EXCEPT !.org = TrimPrefix(a[i], "--org=")], remaining)
    ELSE parseFlagsFrom_FirstIDWins(a, i + 1, override, Append(remaining, a[i]))

\* Mutant of parseFlagsFrom: the value after --org is not skipped.
RECURSIVE parseFlagsFrom_OrgValueKept(_, _, _, _)
parseFlagsFrom_OrgValueKept(a, i, override, remaining) ==
    IF i > Len(a) THEN [override |-> override, remaining |-> remaining]
    ELSE IF a[i] = "--installation-id" /\ i + 1 <= Len(a) THEN
        LET p == ParseInt(a[i + 1])
        IN  parseFlagsFrom_OrgValueKept(a, i + 2,
                IF acceptID(p) THEN [override EXCEPT !.id = p.val] ELSE override,
                remaining)
    ELSE IF HasPrefix(a[i], "--installation-id=") THEN
        LET p == ParseInt(TrimPrefix(a[i], "--installation-id="))
        IN  parseFlagsFrom_OrgValueKept(a, i + 1,
                IF acceptID(p) THEN [override EXCEPT !.id = p.val] ELSE override,
                remaining)
    ELSE IF a[i] = "--org" /\ i + 1 <= Len(a) THEN
        parseFlagsFrom_OrgValueKept(a, i + 1, [override EXCEPT !.org = a[i + 1]], remaining)
    ELSE IF HasPrefix(a[i], "--org=") THEN
        parseFlagsFrom_OrgValueKept(a, i + 1,
            [override EXCEPT !.org = TrimPrefix(a[i], "--org=")], remaining)
    ELSE parseFlagsFrom_OrgValueKept(a, i + 1, override, Append(remaining, a[i]))

RECURSIVE parseFlagsFrom(_, _, _, _)
parseFlagsFrom(a, i, override, remaining) ==
    IF i > Len(a) THEN [override |-> override, remaining |-> remaining]
    ELSE IF a[i] = "--installation-id" /\ i + 1 <= Len(a) THEN
        LET p == ParseInt(a[i + 1])
        IN  parseFlagsFrom(a, i + 2,
                IF acceptID(p) THEN [override EXCEPT !.id = p.val] ELSE override,
                remaining)
    ELSE IF HasPrefix(a[i], "--installation-id=") THEN
        LET p == ParseInt(TrimPrefix(a[i], "--installation-id="))
        IN  parseFlagsFrom(a, i + 1,
                IF acceptID(p) THEN [override EXCEPT !.id = p.val] ELSE override,
                remaining)
    ELSE IF a[i] = "--org" /\ i + 1 <= Len(a) THEN
        parseFlagsFrom(a, i + 2, [override EXCEPT !.org = a[i + 1]], remaining)
    ELSE IF HasPrefix(a[i], "--org=") THEN
        parseFlagsFrom(a, i + 1, [override EXCEPT !.org = TrimPrefix(a[i], "--org=")],
                       remaining)
    ELSE parseFlagsFrom(a, i + 1, override, Append(remaining, a[i]))

parseInstallationFlags(a) == parseFlagsFrom(a, 1, NoOverride, <<>>)

resolveInstallationFromEnv(envID, envOrg) ==
    LET p == ParseInt(envID)
    IN  [id  |-> IF envID # "" /\ acceptID(p) THEN p.val ELSE 0,
         org |-> IF envOrg # "" THEN envOrg ELSE ""]


\* auth.GetInstallations: GET {base}/app/installations.  A transport failure
\* or a status other than 200 is an error that names the status; otherwise
\* the decoded array of installations, in the order the API gave them.
GetInstallations(resp) ==
    IF resp.transport # "ok"
    THEN [installations |-> <<>>, err |-> [kind |-> "transport"]]
    ELSE IF resp.status # 200
    THEN [installations |-> <<>>, err |-> [kind |-> "api", status |-> resp.status]]
    ELSE [installations |-> resp.installations, err |-> NoError]

\* fmt.Sprintf("  %d (%s)", inst.ID, inst.Account.Login) for each installation.
InstallationLines(installations) ==
    [i \in 1..Len(installations) |->
        <<installations[i].id, installations[i].login>>]

\* Mutant of resolveInstallationByOrg: logins are compared exactly.
resolveInstallationByOrg_ExactCase(org, resp) ==
    LET got     == GetInstallations(resp)
        insts   == got.installations
        matches == {i \in 1..Len(insts) : insts[i].login = org}
    IN  IF got.err # NoError
        THEN [id |-> 0, err |-> [kind |-> "listing", cause |-> got.err], listCalls |-> 1]
        ELSE IF matches # {}
        THEN [id |-> insts[CHOOSE i \in matches : \A j \in matches : i <= j].id,
              err |-> NoError, listCalls |-> 1]
        ELSE [id |-> 0,
              err |-> [kind |-> "orgNotFound", org |-> org,
                       available |-> InstallationLines(insts)],
              listCalls |-> 1]

resolveInstallationByOrg(org, resp) ==
    LET got     == GetInstallations(resp)
        insts   == got.installations
        matches == {i \in 1..Len(insts) : EqualFold(insts[i].login, org)}
    IN  IF got.err # NoError
        THEN [id |-> 0, err |-> [kind |-> "listing", cause |-> got.err], listCalls |-> 1]
        ELSE IF matches # {}
        THEN [id |-> insts[CHOOSE i \in matches : \A j \in matches : i <= j].id,
              err |-> NoError, listCalls |-> 1]
        ELSE [id |-> 0,
              err |-> [kind |-> "orgNotFound", org |-> org,
                       available |-> InstallationLines(insts)],
              listCalls |-> 1]

\* Mutant of resolveInstallationID: a failed listing request is sent again.
resolveInstallationID_RetryOnce(resp) ==
    LET got   == GetInstallations(resp)
        insts == got.installations
    IN  IF got.err # NoError
        THEN [id |-> 0, err |-> [kind |-> "listing", cause |-> got.err], listCalls |-> 2]
        ELSE IF Len(insts) = 0
        THEN [id |-> 0, err |-> [kind |-> "noInstallations"], listCalls |-> 1]
        ELSE IF Len(insts) = 1
        THEN [id |-> insts[1].id, err |-> NoError, listCalls |-> 1]
        ELSE [id |-> 0,
              err |-> [kind |-> "multiple", available |-> InstallationLines(insts)],
              listCalls |-> 1]

\* Mutant of resolveInstallationID: of several installations the first is used.
resolveInstallationID_PickFirst(resp) ==
    LET got   == GetInstallations(resp)
        insts == got.installations
    IN  IF got.err # NoError
        THEN [id |-> 0, err |-> [kind |-> "listing", cause |-> got.err], listCalls |-> 1]
        ELSE IF Len(insts) = 0
        THEN [id |-> 0, err |-> [kind |-> "noInstallations"], listCalls |-> 1]
        ELSE [id |-> insts[1].id, err |-> NoError, listCalls |-> 1]

resolveInstallationID(resp) ==
    LET got   == GetInstallations(resp)
        insts == got.installations
    IN  IF got.err # NoError
        THEN [id |-> 0, err |-> [kind |-> "listing", cause |-> got.err], listCalls |-> 1]
        ELSE IF Len(insts) = 0
        THEN [id |-> 0, err |-> [kind |-> "noInstallations"], listCalls |-> 1]
        ELSE IF Len(insts) = 1
        THEN [id |-> insts[1].id, err |-> NoError, listCalls |-> 1]
        ELSE [id |-> 0,
              err |-> [kind |-> "multiple", available |-> InstallationLines(insts)],
              listCalls |-> 1]

\* Mutant of resolveInstallation: when the flag org cannot be resolved the
\* lower tiers are tried.
resolveInstallation_OrgFallsThrough(flag, env, cfgID, resp) ==
    IF flag.id > 0 THEN [id |-> flag.id, err |-> NoError, listCalls |-> 0]
    ELSE IF flag.org # "" /\ resolveInstallationByOrg(flag.org, resp).err = NoError
    THEN resolveInstallationByOrg(flag.org, resp)
    ELSE IF env.id > 0 THEN [id |-> env.id, err |-> NoError, listCalls |-> 0]
    ELSE IF env.org # "" THEN resolveInstallationByOrg(env.org, resp)
    ELSE IF cfgID > 0 THEN [id |-> cfgID, err |-> NoError, listCalls |-> 0]
    ELSE resolveInstallationID(resp)

\* Mutant of resolveInstallation: the config id is looked up in the listing
\* before it is used.
resolveInstallation_ConfigIDChecked(flag, env, cfgID, resp) ==
    IF flag.id > 0 THEN [id |-> flag.id, err |-> NoError, listCalls |-> 0]
    ELSE IF flag.org # "" THEN resolveInstallationByOrg(flag.org, resp)
    ELSE IF env.id > 0 THEN [id |-> env.id, err |-> NoError, listCalls |-> 0]
    ELSE IF env.org # "" THEN resolveInstallationByOrg(env.org, resp)
    ELSE IF cfgID > 0 THEN
        LET got == GetInstallations(resp)
        IN  IF got.err = NoError
               /\ \E i \in 1..Len(got.installations) : got.installations[i].id = cfgID
            THEN [id |-> cfgID, err |-> NoError, listCalls |-> 1]
            ELSE [id |-> 0, err |-> [kind |-> "listing", cause |-> got.err], listCalls |-> 1]
    ELSE resolveInstallationID(resp)

\* Mutant of resolveInstallation: the environment id is tried before the flag org.
resolveInstallation_EnvIDFirst(flag, env, cfgID, resp) ==
    IF flag.id > 0 THEN [id |-> flag.id, err |-> NoError, listCalls |-> 0]
    ELSE IF env.id > 0 THEN [id |-> env.id, err |-> NoError, listCalls |-> 0]
    ELSE IF flag.org # "" THEN resolveInstallationByOrg(flag.org, resp)
    ELSE IF env.org # "" THEN resolveInstallationByOrg(env.org, resp)
    ELSE IF cfgID > 0 THEN [id |-> cfgID, err |-> NoError, listCalls |-> 0]
    ELSE resolveInstallationID(resp)

\* resp is the answer the listing API gives if it is asked; listCalls tells
\* whether it was.
resolveInstallation(flag, env, cfgID, resp) ==
    IF flag.id > 0 THEN [id |-> flag.id, err |-> NoError, listCalls |-> 0]
    ELSE IF flag.org # "" THEN resolveInstallationByOrg(flag.org, resp)
    ELSE IF env.id > 0 THEN [id |-> env.id, err |-> NoError, listCalls |-> 0]
    ELSE IF env.org # "" THEN resolveInstallationByOrg(env.org, resp)
    ELSE IF cfgID > 0 THEN [id |-> cfgID, err |-> NoError, listCalls |-> 0]
    ELSE resolveInstallationID(resp)

-----------------------------------------------------------------------------
(* The inputs of the resolution steps *)

ArgTokens ==
    {"--installation-id", "--org",
     "--installation-id=100", "--installation-id=7", "--installation-id=0",
     "--installation-id=-5", "--org=Org-B", "--org=", "100", "abc"}

RECURSIVE SeqsUpTo(_, _)
SeqsUpTo(S, n) ==
    IF n = 0 THEN {<<>>}
    ELSE LET shorter == SeqsUpTo(S, n - 1)
         IN  shorter \cup {Append(q, x) : q \in {r \in shorter : Len(r) = n - 1}, x \in S}

ArgLists == SeqsUpTo(ArgTokens, MaxArgs)

EnvIDValues == {"", "200", "bad", "99999999999999999999"}

EnvOrgValues == {"", "ORG-A", "nope"}

ConfigIDs == {0, 300, -1}

OrgA == [id |-> 111, login |-> "org-a"]
OrgB == [id |-> 222, login |-> "org-b"]
OrgC == [id |-> 333, login |-> "Org-C"]

\* The listings the API answers with: none, one, two and three installations.
InstallationLists ==
    {<<>>, <<OrgA>>, <<OrgB>>, <<OrgA, OrgB>>, <<OrgC, OrgA>>, <<OrgC, OrgB, OrgA>>}

ListingResponses ==
    {[transport |-> "failed", status |-> 0, installations |-> <<>>],
     [transport |-> "ok", status |-> 401, installations |-> <<>>]}
    \cup {[transport |-> "ok", status |-> 200, installations |-> q] :
            q \in InstallationLists}

NotCalled == [transport |-> "none", status |-> 0, installations |-> <<>>]

NoResult == [id |-> 0, err |-> NoError, listCalls |-> 0]

-----------------------------------------------------------------------------
(* internal/auth/auth.go: GenerateJWT *)

DigitChar(d) == CharAt(DecimalDigits, d + 1)

RECURSIVE FormatUint(_)
FormatUint(n) ==
    IF n < 10 THEN DigitChar(n)
    ELSE FormatUint(n \div 10) \o DigitChar(n % 10)

\* strconv.FormatInt(n, 10)
FormatInt(n) == IF n < 0 THEN "-" \o FormatUint(0 - n) ELSE FormatUint(n)

\* A time.Time is a second of the epoch and the nanoseconds within it;
\* durations added to it here are whole seconds.
TimeAdd(t, seconds) == [sec |-> t.sec + seconds, nsec |-> t.nsec]

\* jwt.NewNumericDate: the time truncated to jwt.TimePrecision, one second;
\* the claim is that number of seconds.
NewNumericDate(t) == t.sec

\* now.Add(-30 * time.Second)
BackdateSeconds == 30
\* now.Add(10 * time.Minute)
LifetimeMinutes == 10
SecondsPerMinute == 60

NoKey == [id |-> "none", bits |-> 0]

\* x509.ParsePKCS1PrivateKey, then x509.ParsePKCS8PrivateKey and the type
\* assertion to *rsa.PrivateKey.  A DER blob is of one encoding and holds one key.
parsePKCS1OrPKCS8(der) ==
    IF der.encoding = "pkcs1" THEN [key |-> der.key, err |-> NoError]
    ELSE IF der.encoding # "pkcs8" THEN [key |-> NoKey, err |-> [kind |-> "keyParse"]]
    ELSE IF der.algorithm # "rsa" THEN [key |-> NoKey, err |-> [kind |-> "keyNotRSA"]]
    ELSE [key |-> der.key, err |-> NoError]

keyBlockTypes == {"RSA PRIVATE KEY", "PRIVATE KEY"}

\* pem.Decode in a loop: blocks is what successive Decode calls return.
\* Mutant of findRSAKeyFrom: a key block that does not parse is passed over.
RECURSIVE findRSAKeyFrom_TryNext(_, _)
findRSAKeyFrom_TryNext(blocks, i) ==
    IF i > Len(blocks) THEN [key |-> NoKey, err |-> [kind |-> "noKeyBlock"]]
    ELSE IF blocks[i].type \in keyBlockTypes /\ parsePKCS1OrPKCS8(blocks[i].der).err = NoError
    THEN parsePKCS1OrPKCS8(blocks[i].der)
    ELSE findRSAKeyFrom_TryNext(blocks, i + 1)

RECURSIVE findRSAKeyFrom(_, _)
findRSAKeyFrom(blocks, i) ==
    IF i > Len(blocks) THEN [key |-> NoKey, err |-> [kind |-> "noKeyBlock"]]
    ELSE IF blocks[i].type \in keyBlockTypes THEN parsePKCS1OrPKCS8(blocks[i].der)
    ELSE findRSAKeyFrom(blocks, i + 1)

findRSAKey(blocks) == findRSAKeyFrom(blocks, 1)

\* The smallest modulus rsa.SignPKCS1v15 signs a SHA-256 digest with: the
\* DigestInfo (51 bytes) and 11 bytes of padding.
MinSigningBits == 496

\* token.SignedString(key) with jwt.SigningMethodRS256
SignedString(claims, key) ==
    IF key.bits < MinSigningBits
    THEN [token |-> [alg |-> "none", claims |-> claims, signedBy |-> "none"],
          err |-> [kind |-> "signing"]]
    ELSE [token |-> [alg |-> "RS256", claims |-> claims, signedBy |-> key.id],
          err |-> NoError]

\* Mutant of RegisteredClaims: issued-at is backdated by a minute.
RegisteredClaims_BackdateMinute(appID, t) ==
    [iat |-> NewNumericDate(TimeAdd(t, 0 - SecondsPerMinute)),
     exp |-> NewNumericDate(TimeAdd(t, LifetimeMinutes * SecondsPerMinute)),
     iss |-> FormatInt(appID)]

\* Mutant of RegisteredClaims: the issuer is the app id without its last digit.
RegisteredClaims_IssuerCut(appID, t) ==
    [iat |-> NewNumericDate(TimeAdd(t, 0 - BackdateSeconds)),
     exp |-> NewNumericDate(TimeAdd(t, LifetimeMinutes * SecondsPerMinute)),
     iss |-> FormatInt(appID \div 10)]

\* claims := jwt.RegisteredClaims{IssuedAt: ..., ExpiresAt: ..., Issuer: ...}
RegisteredClaims(appID, t) ==
    [iat |-> NewNumericDate(TimeAdd(t, 0 - BackdateSeconds)),
     exp |-> NewNumericDate(TimeAdd(t, LifetimeMinutes * SecondsPerMinute)),
     iss |-> FormatInt(appID)]

NoToken == [alg |-> "none", claims |-> [iat |-> 0, exp |-> 0, iss |-> ""], signedBy |-> "none"]

GenerateJWT(appID, file, t) ==
    IF ~file.readable
    THEN [token |-> NoToken, err |-> [kind |-> "keyRead"]]
    ELSE LET found == findRSAKey(file.blocks)
         IN  IF found.err # NoError
             THEN [token |-> NoToken, err |-> found.err]
             ELSE LET signed == SignedString(RegisteredClaims(appID, t), found.key)
                  IN  IF signed.err # NoError
                      THEN [token |-> NoToken, err |-> signed.err]
                      ELSE signed

-----------------------------------------------------------------------------
(* The inputs of GenerateJWT *)

AppIDs == {-5, 0, 1, 42, 12345}

Key1 == [id |-> "key1", bits |-> 2048]
Key2 == [id |-> "key2", bits |-> 2048]
TinyKey == [id |-> "tiny", bits |-> 256]

Pkcs1(k) == [encoding |-> "pkcs1", algorithm |-> "rsa", key |-> k]
Pkcs8(k) == [encoding |-> "pkcs8", algorithm |-> "rsa", key |-> k]
Pkcs8EC == [encoding |-> "pkcs8", algorithm |-> "ec", key |-> NoKey]
NotDER == [encoding |-> "none", algorithm |-> "none", key |-> NoKey]

Block(type, der) == [type |-> type, der |-> der]

File(blocks) == [readable |-> TRUE, blocks |-> blocks]

KeyFiles ==
    {[readable |-> FALSE, blocks |-> <<>>],
     File(<<>>),
     File(<<Block("RSA PRIVATE KEY", Pkcs1(Key1))>>),
     File(<<Block("PRIVATE KEY", Pkcs8(Key1))>>),
     File(<<Block("PRIVATE KEY", Pkcs1(Key2))>>),
     File(<<Block("PRIVATE KEY", Pkcs8EC)>>),
     File(<<Block("RSA PRIVATE KEY", NotDER)>>),
     File(<<Block("CERTIFICATE", NotDER), Block("PRIVATE KEY", Pkcs8(Key2))>>),
     File(<<Block("CERTIFICATE", NotDER)>>),
     File(<<Block("RSA PRIVATE KEY", NotDER), Block("RSA PRIVATE KEY", Pkcs1(Key1))>>),
     File(<<Block("RSA PRIVATE KEY", Pkcs1(TinyKey))>>)}

ClockReadings ==
    {[sec |-> s, nsec |-> n] :
        s \in {1700000000, 1700000029, 1700000059}, n \in {0, 1, 999999999}}

NoFile == [readable |-> FALSE, blocks |-> <<>>]
NoTime == [sec |-> 0, nsec |-> 0]
NoJWT == [token |-> NoToken, err |-> NoError]

JWTIdle ==
    /\ jpc = "idle"
    /\ jwtAppID = 0
    /\ privateKeyFile = NoFile
    /\ clockNow = NoTime
    /\ jwtResult = NoJWT

InitJWT ==
    /\ jpc = "start"
    /\ jwtAppID = 0
    /\ privateKeyFile = NoFile
    /\ clockNow = NoTime
    /\ jwtResult = NoJWT

\* jwtToken, err := auth.GenerateJWT(cfg.AppID, cfg.PrivateKeyPath)
CallGenerateJWT ==
    /\ jpc = "start"
    /\ \E appID \in AppIDs, file \in KeyFiles, t \in ClockReadings :
        /\ jwtAppID' = appID
        /\ privateKeyFile' = file
        /\ clockNow' = t
        /\ jwtResult' = GenerateJWT(appID, file, t)
    /\ jpc' = "done"
    /\ UNCHANGED <<resolveVars, exchVars, fwdVars, cfgVars, runVars, updVars>>

-----------------------------------------------------------------------------
(* internal/auth/auth.go: GetInstallationToken *)

\* const maxResponseBytes = 1 << 20
maxResponseBytes == 1048576

\* http.StatusCreated
StatusCreated == 201

Min(a, b) == IF a <= b THEN a ELSE b

\* A response body is a JSON text of docLen bytes followed by white space up
\* to len bytes.  io.ReadAll(io.LimitReader(resp.Body, maxResponseBytes)) keeps
\* its first maxResponseBytes bytes.
LimitedRead(body) == [body EXCEPT !.len = Min(body.len, maxResponseBytes)]

\* json.Unmarshal(body, &tokenResp): an error for a text that is cut short or
\* is no JSON object of the expected shape; a missing token field leaves "".
Unmarshal(body) ==
    IF body.len < body.docLen \/ ~body.doc.json
    THEN [token |-> "", err |-> [kind |-> "parse"]]
    ELSE [token |-> IF body.doc.hasToken THEN body.doc.token ELSE "", err |-> NoError]

\* Mutant of statusAccepted: every 2xx status is a success.
statusAccepted_Any2xx(status) == status >= 200 /\ status <= 299

\* Mutant of statusAccepted: only client and server errors are rejected.
statusAccepted_Below400(status) == status < 400

\* resp.StatusCode != http.StatusCreated is an error
statusAccepted(status) == status = StatusCreated

\* Mutant of tokenAccepted: the token is not looked at.
tokenAccepted_Any(token) == TRUE

\* tokenResp.Token == "" is an error
tokenAccepted(token) == token # ""

\* The request GetInstallationToken sends.
TokenRequest(jwtToken, installationID) ==
    [method |-> "POST",
     path |-> <<"app", "installations", installationID, "access_tokens">>,
     authorization |-> "Bearer " \o jwtToken,
     accept |-> "application/vnd.github+json",
     apiVersion |-> "2022-11-28"]

GetInstallationToken(resp) ==
    IF resp.transport # "ok"
    THEN [token |-> "", err |-> [kind |-> "transport"]]
    ELSE IF ~resp.readable
    THEN [token |-> "", err |-> [kind |-> "read"]]
    ELSE LET body == LimitedRead(resp.body)
         IN  IF ~statusAccepted(resp.status)
             THEN [token |-> "",
                   err |-> [kind |-> "api", status |-> resp.status, body |-> body]]
             ELSE LET tokenResp == Unmarshal(body)
                  IN  IF tokenResp.err # NoError
                      THEN [token |-> "", err |-> tokenResp.err]
                      ELSE IF ~tokenAccepted(tokenResp.token)
                      THEN [token |-> "", err |-> [kind |-> "emptyToken"]]
                      ELSE [token |-> tokenResp.token, err |-> NoError]

-----------------------------------------------------------------------------
(* The inputs of GetInstallationToken *)

NotJSON == [json |-> FALSE, hasToken |-> FALSE, token |-> ""]
NoTokenField == [json |-> TRUE, hasToken |-> FALSE, token |-> ""]
TokenDoc(t) == [json |-> TRUE, hasToken |-> TRUE, token |-> t]

ResponseDocs == {NotJSON, NoTokenField, TokenDoc(""), TokenDoc("ghs_abc"), TokenDoc("   ")}

\* A short text; a short text padded to the ceiling and one byte past it; a
\* text that is itself one byte longer than the ceiling.
ResponseBodies ==
    {[doc |-> d, docLen |-> 64, len |-> n] :
        d \in ResponseDocs, n \in {64, maxResponseBytes, maxResponseBytes + 1}}
    \cup {[doc |-> d, docLen |-> maxResponseBytes + 1, len |-> maxResponseBytes + 1] :
        d \in ResponseDocs}

ResponseStatuses == {200, 201, 204, 302, 401, 404, 500}

NoBody == [doc |-> NotJSON, docLen |-> 0, len |-> 0]

NoResponse == [transport |-> "none", status |-> 0, readable |-> FALSE, body |-> NoBody]

TokenResponses ==
    {[transport |-> "failed", status |-> 0, readable |-> FALSE, body |-> NoBody]}
    \cup {[transport |-> "ok", status |-> st, readable |-> r, body |-> b] :
            st \in ResponseStatuses, r \in BOOLEAN, b \in ResponseBodies}

JWTStrings == {"jwt-1"}

InstallationIDs == {1, 67890}

NoTokenResult == [token |-> "", err |-> NoError]

ExchangeIdle ==
    /\ xpc = "idle"
    /\ exchRequests = <<>>
    /\ exchResponse = NoResponse
    /\ exchResult = NoTokenResult

InitExchange ==
    /\ xpc = "start"
    /\ exchRequests = <<>>
    /\ exchResponse = NoResponse
    /\ exchResult = NoTokenResult

\* installToken, err := auth.GetInstallationToken(jwtToken, installationID)
CallGetInstallationToken ==
    /\ xpc = "start"
    /\ \E jwtToken \in JWTStrings, id \in InstallationIDs, resp \in TokenResponses :
        /\ exchRequests' = Append(exchRequests, TokenRequest(jwtToken, id))
        /\ exchResponse' = resp
        /\ exchResult' = GetInstallationToken(resp)
    /\ xpc' = "done"
    /\ UNCHANGED <<resolveVars, jwtVars, fwdVars, cfgVars, runVars, updVars>>

-----------------------------------------------------------------------------
(* internal/proxy: validateToken, resolveGh, buildEnv, filterEnv, Exec, RunCapture *)

\* The white space strings.TrimSpace removes, within ASCII.
WhiteSpace == {" ", "\t", "\n", "\r", "\f"}

RECURSIVE TrimLeft(_)
TrimLeft(s) ==
    IF Len(s) > 0 /\ CharAt(s, 1) \in WhiteSpace
    THEN TrimLeft(SubSeq(s, 2, Len(s)))
    ELSE s

RECURSIVE TrimRight(_)
TrimRight(s) ==
    IF Len(s) > 0 /\ CharAt(s, Len(s)) \in WhiteSpace
    THEN TrimRight(SubSeq(s, 1, Len(s) - 1))
    ELSE s

\* strings.TrimSpace
TrimSpace(s) == TrimRight(TrimLeft(s))

errEmptyToken == [kind |-> "emptyToken", text |-> "token must not be empty"]

\* Mutant of validateToken: every token is accepted.
validateToken_Accepting(token) == NoError

\* Mutant of validateToken: only the empty string is rejected.
validateToken_EmptyOnly(token) == IF token = "" THEN errEmptyToken ELSE NoError

validateToken(token) == IF TrimSpace(token) = "" THEN errEmptyToken ELSE NoError

\* const GhBinary = "gh"
GhBinary == "gh"

\* exec.LookPath(GhBinary): the path of gh, or an error when PATH holds none.
resolveGh(gh) ==
    IF gh.onPath THEN [path |-> "/usr/bin/" \o GhBinary, err |-> NoError]
    ELSE [path |-> "", err |-> [kind |-> "ghNotFound"]]

\* Mutant of filterEnv: an entry that begins with a key is dropped.
filterEnv_NamePrefix(env, keys) ==
    SelectSeq(env, LAMBDA e : ~\E k \in 1..Len(keys) : HasPrefix(e, keys[k]))

filterEnv(env, keys) ==
    SelectSeq(env, LAMBDA e : ~\E k \in 1..Len(keys) : HasPrefix(e, keys[k] \o "="))

\* Mutant of buildEnv: the fresh token is put before the inherited entries.
buildEnv_TokenFirst(env, token) ==
    <<"GH_TOKEN=" \o token>> \o filterEnv(env, <<"GH_TOKEN", "GITHUB_TOKEN">>)

\* Mutant of buildEnv: only GH_TOKEN is filtered out.
buildEnv_OnlyGhToken(env, token) ==
    Append(filterEnv(env, <<"GH_TOKEN">>), "GH_TOKEN=" \o token)

\* env is os.Environ()
buildEnv(env, token) ==
    Append(filterEnv(env, <<"GH_TOKEN", "GITHUB_TOKEN">>), "GH_TOKEN=" \o token)

NoChild == [started |-> FALSE, path |-> "", argv |-> <<>>, env |-> <<>>]

\* What a forwarder call leaves behind when it returns before gh runs: the
\* LookPath calls it made and the error it returns.
Returned(lookups, err) ==
    [lookups |-> lookups, child |-> NoChild, returned |-> TRUE, err |-> err, exit |-> 0]

\* The process started for gh.
Command(path, a, env, token) ==
    [started |-> TRUE, path |-> path, argv |-> <<path>> \o a, env |-> buildEnv(env, token)]

\* exec_unix.go: Exec.  syscall.Exec replaces the process image: on success
\* nothing returns and the process ends as gh does.
ExecUnix(a, token, env, gh) ==
    IF validateToken(token) # NoError THEN Returned(0, validateToken(token))
    ELSE LET found == resolveGh(gh)
         IN  IF found.err # NoError THEN Returned(1, found.err)
             ELSE IF ~gh.starts THEN Returned(1, [kind |-> "exec"])
             ELSE [lookups |-> 1, child |-> Command(found.path, a, env, token),
                   returned |-> FALSE, err |-> NoError, exit |-> gh.exit]

\* (*os.ProcessState)(nil).ExitCode()
NoProcessExitCode == -1

\* exec_windows.go: Exec.  cmd.Run() and then os.Exit with the exit code of
\* cmd.ProcessState, which is nil when gh could not be started.
ExecWindows(a, token, env, gh) ==
    IF validateToken(token) # NoError THEN Returned(0, validateToken(token))
    ELSE LET found == resolveGh(gh)
         IN  IF found.err # NoError THEN Returned(1, found.err)
             ELSE IF ~gh.starts
             THEN [lookups |-> 1, child |-> NoChild, returned |-> FALSE,
                   err |-> NoError, exit |-> NoProcessExitCode]
             ELSE [lookups |-> 1, child |-> Command(found.path, a, env, token),
                   returned |-> FALSE, err |-> NoError, exit |-> gh.exit]

\* proxy.go: RunCapture.  cmd.CombinedOutput() waits for gh; a failed start
\* and a non-zero exit are returned as an error.
RunCapture(a, token, env, gh) ==
    IF validateToken(token) # NoError THEN Returned(0, validateToken(token))
    ELSE LET found == resolveGh(gh)
         IN  IF found.err # NoError THEN Returned(1, found.err)
             ELSE IF ~gh.starts THEN Returned(1, [kind |-> "run", cause |-> "start"])
             ELSE [lookups |-> 1, child |-> Command(found.path, a, env, token),
                   returned |-> TRUE,
                   err |-> IF gh.exit # 0 THEN [kind |-> "run", cause |-> "exit"]
                           ELSE NoError,
                   exit |-> 0]

-----------------------------------------------------------------------------
(* The inputs of the forwarder *)

MaxEnv == 2

EnvEntries == {"HOME=/home/user", "GH_TOKEN=old", "GITHUB_TOKEN=old2", "GH_TOKEN_EXTRA=keep"}

Environments == SeqsUpTo(EnvEntries, MaxEnv)

Tokens == {"", "   ", "\t", "ghs_abc", " ghs_abc\n"}

ForwardedArgs == {<<>>, <<"pr", "list", "--repo", "org/repo">>}

GhInstallations ==
    {[onPath |-> p, starts |-> st, exit |-> x] :
        p \in BOOLEAN, st \in BOOLEAN, x \in {0, 1, 2}}

NoCall == [backend |-> "none", args |-> <<>>, token |-> ""]
NoGh == [onPath |-> FALSE, starts |-> FALSE, exit |-> 0]
NoOutcome == [returned |-> FALSE, err |-> NoError, exit |-> 0]

ForwardIdle ==
    /\ fpc = "idle"
    /\ fwdCall = NoCall
    /\ environ = <<>>
    /\ ghInstalled = NoGh
    /\ lookPathCalls = 0
    /\ child = NoChild
    /\ fwdResult = NoOutcome

InitForward ==
    /\ fpc = "start"
    /\ fwdCall = NoCall
    /\ environ = <<>>
    /\ ghInstalled = NoGh
    /\ lookPathCalls = 0
    /\ child = NoChild
    /\ fwdResult = NoOutcome

\* One call of the forwarder, `out` being what it leaves behind.
Forward(backend, a, token, env, gh, out) ==
    /\ fwdCall' = [backend |-> backend, args |-> a, token |-> token]
    /\ environ' = env
    /\ ghInstalled' = gh
    /\ lookPathCalls' = lookPathCalls + out.lookups
    /\ child' = out.child
    /\ fwdResult' = [returned |-> out.returned, err |-> out.err, exit |-> out.exit]
    /\ fpc' = "done"
    /\ UNCHANGED <<resolveVars, jwtVars, exchVars, cfgVars, runVars, updVars>>

\* proxy.Exec(ghArgs, installToken), built for a Unix
CallExecUnix ==
    /\ fpc = "start"
    /\ \E a \in ForwardedArgs, token \in Tokens, env \in Environments, gh \in GhInstallations :
        Forward("unix", a, token, env, gh, ExecUnix(a, token, env, gh))

\* proxy.Exec(ghArgs, installToken), built for Windows
CallExecWindows ==
    /\ fpc = "start"
    /\ \E a \in ForwardedArgs, token \in Tokens, env \in Environments, gh \in GhInstallations :
        Forward("windows", a, token, env, gh, ExecWindows(a, token, env, gh))

\* proxy.RunCapture(args, token)
CallRunCapture ==
    /\ fpc = "start"
    /\ \E a \in ForwardedArgs, token \in Tokens, env \in Environments, gh \in GhInstallations :
        Forward("capture", a, token, env, gh, RunCapture(a, token, env, gh))

-----------------------------------------------------------------------------
(* internal/config: Dir, Load, Save *)

\* A config.yaml on disk: missing, unreadable, or present with a text that
\* yaml.Unmarshal accepts or not; `entries` are the entries of the mapping
\* it holds, <<key, scalar text>>, in the order of the file.
NoConfigFile == [state |-> "missing", valid |-> FALSE, entries |-> <<>>]

ConfigText(valid, entries) == [state |-> "present", valid |-> valid, entries |-> entries]

\* The zero value of Config.
NoConfig == [AppID |-> 0, InstallationID |-> 0, PrivateKeyPath |-> ""]

\* config.Dir: filepath.Join(home, ".config", configDir)
Dir(home) ==
    IF home = "" THEN [dir |-> "", err |-> [kind |-> "homeDir"]]
    ELSE [dir |-> home \o "/.config/github-app-cli", err |-> NoError]

\* The scalar of the first entry with this key, "" when there is none.
RECURSIVE Scalar(_, _)
Scalar(entries, key) ==
    IF entries = <<>> THEN ""
    ELSE IF entries[1][1] = key THEN entries[1][2]
    ELSE Scalar(Tail(entries), key)

\* An int64 field: absent keeps the zero value, a scalar that is no integer
\* is a decoding error.
IntField(entries, key) ==
    IF Scalar(entries, key) = "" THEN [ok |-> TRUE, val |-> 0]
    ELSE [ok |-> ParseInt(Scalar(entries, key)).ok, val |-> ParseInt(Scalar(entries, key)).val]

\* yaml.Unmarshal(data, &cfg)
UnmarshalConfig(file) ==
    LET appID == IntField(file.entries, "app_id")
        instID == IntField(file.entries, "installation_id")
    IN  IF ~file.valid \/ ~appID.ok \/ ~instID.ok
        THEN [cfg |-> NoConfig, err |-> [kind |-> "parsingConfig"]]
        ELSE [cfg |-> [AppID |-> appID.val, InstallationID |-> instID.val,
                       PrivateKeyPath |-> Scalar(file.entries, "private_key_path")],
              err |-> NoError]

\* yaml.Marshal(cfg)
MarshalConfig(cfg) ==
    <<<<"app_id", FormatInt(cfg.AppID)>>,
      <<"installation_id", FormatInt(cfg.InstallationID)>>,
      <<"private_key_path", cfg.PrivateKeyPath>>>>

\* config.Load
Load(home, file) ==
    IF Dir(home).err # NoError THEN [cfg |-> NoConfig, err |-> Dir(home).err]
    ELSE IF file.state = "missing" THEN [cfg |-> NoConfig, err |-> [kind |-> "configNotFound"]]
    ELSE IF file.state # "present" THEN [cfg |-> NoConfig, err |-> [kind |-> "readingConfig"]]
    ELSE LET parsed == UnmarshalConfig(file)
         IN  IF parsed.err # NoError THEN parsed
             ELSE IF parsed.cfg.AppID = 0
             THEN [cfg |-> NoConfig, err |-> [kind |-> "appIDRequired"]]
             ELSE IF parsed.cfg.InstallationID = 0
             THEN [cfg |-> NoConfig, err |-> [kind |-> "installationIDRequired"]]
             ELSE IF parsed.cfg.PrivateKeyPath = ""
             THEN [cfg |-> NoConfig, err |-> [kind |-> "privateKeyPathRequired"]]
             ELSE parsed

\* config.Save.  `disk` says how the file system answers: os.MkdirAll fails,
\* os.WriteFile cannot open the file, os.WriteFile fails after it truncated
\* the file, or all is written.
Save(home, disk, cfg, file) ==
    IF Dir(home).err # NoError THEN [file |-> file, err |-> Dir(home).err]
    ELSE IF disk = "mkdirFails" THEN [file |-> file, err |-> [kind |-> "creatingDir"]]
    ELSE IF disk = "openFails" THEN [file |-> file, err |-> [kind |-> "writingConfig"]]
    ELSE IF disk = "writeFails"
    THEN [file |-> ConfigText(TRUE, <<>>), err |-> [kind |-> "writingConfig"]]
    ELSE [file |-> ConfigText(TRUE, MarshalConfig(cfg)), err |-> NoError]

-----------------------------------------------------------------------------
(* cmd.go: prompt, runConfigure *)

\* The files os.Stat finds.
RegularFiles == {"/keys/app.pem", "/home/user/app.pem"}
Directories == {"/keys", "/home/user"}

\* os.Stat(path), and info.Mode().IsRegular()
Stat(path) ==
    IF path \in RegularFiles THEN "regular"
    ELSE IF path \in Directories THEN "directory"
    ELSE "missing"

\* prompt: the k-th line of stdin, trimmed; an error at the end of input.
prompt(lines, k) ==
    IF k > Len(lines) THEN [line |-> "", err |-> [kind |-> "endOfInput"]]
    ELSE [line |-> TrimSpace(lines[k]), err |-> NoError]

Prompts == <<"GitHub App ID: ", "Installation ID (empty to auto-detect): ",
             "Private Key Path: ">>

\* if strings.HasPrefix(keyPath, "~/") { ... filepath.Join(home, keyPath[2:]) }
ExpandHome(keyPath, home) ==
    IF HasPrefix(keyPath, "~/") /\ home # ""
    THEN home \o "/" \o SubSeq(keyPath, 3, Len(keyPath))
    ELSE keyPath

\* What runConfigure leaves behind: its error, the config file, and what it
\* wrote to stderr: the first `prompts` prompts and, at the end, the
\* confirmation.
ConfigureOutcome(err, file, prompts, saved) ==
    [err |-> err, file |-> file,
     stderr |-> [i \in 1..prompts |-> [kind |-> "prompt", text |-> Prompts[i], err |-> NoError]]
                \o IF saved
                   THEN <<[kind |-> "saved", text |-> "Configuration saved to ", err |-> NoError]>>
                   ELSE <<>>]

runConfigure(lines, home, disk, file) ==
    LET appIDStr == prompt(lines, 1)
        appID == ParseInt(appIDStr.line)
        installIDStr == prompt(lines, 2)
        installID == ParseInt(installIDStr.line)
        keyPathStr == prompt(lines, 3)
        keyPath == ExpandHome(keyPathStr.line, home)
        cfg == [AppID |-> appID.val,
                InstallationID |-> IF installIDStr.line = "" THEN 0 ELSE installID.val,
                PrivateKeyPath |-> keyPath]
        saving == Save(home, disk, cfg, file)
    IN  IF appIDStr.err # NoError
        THEN ConfigureOutcome([kind |-> "readingAppID"], file, 1, FALSE)
        ELSE IF ~appID.ok \/ appID.val <= 0
        THEN ConfigureOutcome([kind |-> "invalidAppID", text |-> appIDStr.line], file, 1, FALSE)
        ELSE IF installIDStr.err # NoError
        THEN ConfigureOutcome([kind |-> "readingInstallationID"], file, 2, FALSE)
        ELSE IF installIDStr.line # "" /\ (~installID.ok \/ installID.val <= 0)
        THEN ConfigureOutcome([kind |-> "invalidInstallationID", text |-> installIDStr.line],
                              file, 2, FALSE)
        ELSE IF keyPathStr.err # NoError
        THEN ConfigureOutcome([kind |-> "readingKeyPath"], file, 3, FALSE)
        ELSE IF keyPathStr.line = ""
        THEN ConfigureOutcome([kind |-> "emptyKeyPath"], file, 3, FALSE)
        ELSE IF Stat(keyPath) = "missing"
        THEN ConfigureOutcome([kind |-> "privateKeyFile"], file, 3, FALSE)
        ELSE IF Stat(keyPath) # "regular"
        THEN ConfigureOutcome([kind |-> "notRegularFile", text |-> keyPath], file, 3, FALSE)
        ELSE IF saving.err # NoError
        THEN ConfigureOutcome([kind |-> "savingConfig", cause |-> saving.err],
                              saving.file, 3, FALSE)
        ELSE ConfigureOutcome(NoError, saving.file, 3, TRUE)

-----------------------------------------------------------------------------
(* The inputs of the configuration steps *)

HomeDirs == {"", "/home/user"}

ConfigFiles ==
    {NoConfigFile,
     [state |-> "unreadable", valid |-> FALSE, entries |-> <<>>],
     ConfigText(FALSE, <<>>),
     ConfigText(TRUE, <<>>),
     ConfigText(TRUE, <<<<"app_id", "42">>, <<"installation_id", "300">>,
                        <<"private_key_path", "/keys/app.pem">>>>),
     ConfigText(TRUE, <<<<"app_id", "42">>, <<"private_key_path", "/keys/app.pem">>>>),
     ConfigText(TRUE, <<<<"app_id", "-5">>, <<"installation_id", "300">>,
                        <<"private_key_path", "/keys/app.pem">>>>),
     ConfigText(TRUE, <<<<"app_id", "42">>, <<"installation_id", "-1">>,
                        <<"private_key_path", "/keys/app.pem">>>>),
     ConfigText(TRUE, <<<<"app_id", "forty">>, <<"installation_id", "300">>,
                        <<"private_key_path", "/keys/app.pem">>>>),
     ConfigText(TRUE, <<<<"app_id", "42">>, <<"installation_id", "300">>>>)}

AppIDAnswers == {"12345", " 42 ", "0", "-5", "abc", ""}
InstallationIDAnswers == {"", "300", "0", "x"}
KeyPathAnswers == {"/keys/app.pem", "~/app.pem", "/keys", "/none", ""}

\* stdin: all three answers, or the input ends before.
StdinInputs ==
    {<<>>}
    \cup {<<a>> : a \in AppIDAnswers}
    \cup {<<a, i>> : a \in AppIDAnswers, i \in InstallationIDAnswers}
    \cup {<<a, i, k>> : a \in AppIDAnswers, i \in InstallationIDAnswers, k \in KeyPathAnswers}

DiskAnswers == {"ok", "mkdirFails", "openFails", "writeFails"}

NotConfigured == [err |-> NoError, file |-> NoConfigFile, stderr |-> <<>>]
NotLoaded == [cfg |-> NoConfig, err |-> NoError]

ConfigIdle ==
    /\ cpc = "idle"
    /\ userHome = ""
    /\ cfgFile = NoConfigFile
    /\ stdinLines = <<>>
    /\ configured = NotConfigured
    /\ loaded = NotLoaded

InitConfig ==
    /\ cpc = "start"
    /\ userHome \in HomeDirs
    /\ cfgFile \in ConfigFiles
    /\ stdinLines = <<>>
    /\ configured = NotConfigured
    /\ loaded = NotLoaded

\* gha configure: runConfigure(stdin, stderr)
Configure ==
    /\ cpc = "start"
    /\ \E lines \in StdinInputs, disk \in DiskAnswers :
        /\ stdinLines' = lines
        /\ configured' = runConfigure(lines, userHome, disk, cfgFile)
        /\ cfgFile' = configured'.file
    /\ cpc' = "configured"
    /\ UNCHANGED <<userHome, loaded>>
    /\ UNCHANGED <<resolveVars, jwtVars, exchVars, fwdVars, runVars, updVars>>

\* cfg, err := config.Load()
LoadConfig ==
    /\ cpc \in {"start", "configured"}
    /\ loaded' = Load(userHome, cfgFile)
    /\ cpc' = IF cpc = "start" THEN "loaded" ELSE "reloaded"
    /\ UNCHANGED <<userHome, cfgFile, stdinLines, configured>>
    /\ UNCHANGED <<resolveVars, jwtVars, exchVars, fwdVars, runVars, updVars>>

-----------------------------------------------------------------------------
(* internal/update: Check, fetchLatestVersion, readCache, writeCache, isNewer *)

\* Mutant of checkInterval: the cache is good for two days.
checkInterval_TwoDays == 48 * 3600

\* checkInterval = 24 * time.Hour, in seconds
checkInterval == 24 * 3600

\* strings.Split(s, "."), cur being the piece that is being read
RECURSIVE SplitDots(_, _)
SplitDots(s, cur) ==
    IF s = "" THEN <<cur>>
    ELSE IF CharAt(s, 1) = "." THEN <<cur>> \o SplitDots(SubSeq(s, 2, Len(s)), "")
    ELSE SplitDots(SubSeq(s, 2, Len(s)), cur \o CharAt(s, 1))

\* n, _ := strconv.Atoi(s): 0 for a text that is no numeral, such as the
\* "9-rc1" of a pre-release version.  No component of the versions of the
\* model is out of range.
Atoi(s) == IF ParseInt(s).ok THEN ParseInt(s).val ELSE 0

\* part(parts, i), i counted from 0
part(parts, i) == IF i >= Len(parts) THEN 0 ELSE Atoi(parts[i + 1])

isNewer(latest, current) ==
    LET lParts == SplitDots(TrimPrefix(latest, "v"), "")
        cParts == SplitDots(TrimPrefix(current, "v"), "")
    IN  IF part(lParts, 0) # part(cParts, 0) THEN part(lParts, 0) > part(cParts, 0)
        ELSE IF part(lParts, 1) # part(cParts, 1) THEN part(lParts, 1) > part(cParts, 1)
        ELSE part(lParts, 2) > part(cParts, 2)

\* fetchLatestVersion: the tag of the latest release without a leading "v",
\* "" when the request fails, the status is not 200, the body cannot be read
\* or is no JSON object; a release without tag_name gives "" as well.
fetchLatestVersion(resp) ==
    IF resp.transport # "ok" \/ resp.status # 200 THEN ""
    ELSE IF ~resp.readable THEN ""
    ELSE IF ~resp.body.json THEN ""
    ELSE TrimPrefix(resp.body.tag, "v")

\* update-check.json on disk: missing, a text that is no JSON, or the state
\* that was written.
NoCacheFile == [state |-> "missing", latest |-> "", checkedAt |-> 0]
BrokenCacheFile == [state |-> "garbage", latest |-> "", checkedAt |-> 0]
CacheEntry(latest, checkedAt) ==
    [state |-> "entry", latest |-> latest, checkedAt |-> checkedAt]

\* readCache: nil when the file cannot be read or decoded
readCache(file) ==
    IF file.state = "entry"
    THEN [found |-> TRUE, LatestVersion |-> file.latest, CheckedAt |-> file.checkedAt]
    ELSE [found |-> FALSE, LatestVersion |-> "", CheckedAt |-> 0]

\* writeCache: _ = os.WriteFile(path, data, 0o600).  `disk` says how the file
\* system answers: the file cannot be opened (the directory is missing), the
\* write fails after the file was truncated, or all is written.
writeCache(file, latest, checkedAt, disk) ==
    IF disk = "openFails" THEN file
    ELSE IF disk = "writeFails" THEN BrokenCacheFile
    ELSE CacheEntry(latest, checkedAt)

\* A nil *Result, and &Result{Latest: ..., Current: ...}
NoUpdate == [found |-> FALSE, Latest |-> "", Current |-> ""]
Result(latest, current) == [found |-> TRUE, Latest |-> latest, Current |-> current]

NoRelease == [transport |-> "none", status |-> 0, readable |-> FALSE,
              body |-> [json |-> FALSE, tag |-> ""]]

\* Check(currentVersion, cacheDir): its result, the cache file it leaves, and
\* what it did: whether it read the cache, the request it made (NoRelease
\* when it made none) and whether it wrote the cache.  `now` is the clock
\* when the age of the cache is taken, `delay` the time the fetch takes.
Check(currentVersion, file, now, resp, delay, disk) ==
    IF currentVersion = "" \/ currentVersion = "dev"
    THEN [result |-> NoUpdate, cache |-> file, read |-> FALSE, fetched |-> NoRelease,
          fetches |-> 0, wrote |-> FALSE, clock |-> now]
    ELSE LET cached == readCache(file)
             latest == fetchLatestVersion(resp)
         IN  IF cached.found /\ now - cached.CheckedAt < checkInterval
             THEN [result |-> IF isNewer(cached.LatestVersion, currentVersion)
                              THEN Result(cached.LatestVersion, currentVersion)
                              ELSE NoUpdate,
                   cache |-> file, read |-> TRUE, fetched |-> NoRelease,
                   fetches |-> 0, wrote |-> FALSE, clock |-> now]
             ELSE IF latest = ""
             THEN [result |-> NoUpdate, cache |-> file, read |-> TRUE, fetched |-> resp,
                   fetches |-> 1, wrote |-> FALSE, clock |-> now + delay]
             ELSE [result |-> IF isNewer(latest, currentVersion)
                              THEN Result(latest, currentVersion)
                              ELSE NoUpdate,
                   cache |-> writeCache(file, latest, now + delay, disk),
                   read |-> TRUE, fetched |-> resp, fetches |-> 1, wrote |-> TRUE,
                   clock |-> now + delay]

-----------------------------------------------------------------------------
(* The inputs of Check *)

MaxChecks == 2

\* The clock at the start, in seconds.
StartOfTime == 1700000000

Versions == {"", "dev", "1.2.3", "v1.10.0", "1.2.9-rc1"}

ReleaseTags == {"v1.2.3", "v1.9.0", "v2.0", ""}

ReleaseResponses ==
    {[transport |-> "failed", status |-> 0, readable |-> FALSE,
      body |-> [json |-> FALSE, tag |-> ""]],
     [transport |-> "ok", status |-> 404, readable |-> TRUE,
      body |-> [json |-> TRUE, tag |-> ""]],
     [transport |-> "ok", status |-> 200, readable |-> FALSE,
      body |-> [json |-> TRUE, tag |-> "v2.0"]],
     [transport |-> "ok", status |-> 200, readable |-> TRUE,
      body |-> [json |-> FALSE, tag |-> ""]]}
    \cup {[transport |-> "ok", status |-> 200, readable |-> TRUE,
           body |-> [json |-> TRUE, tag |-> t]] : t \in ReleaseTags}

CacheFiles ==
    {NoCacheFile, BrokenCacheFile,
     CacheEntry("1.9.0", StartOfTime - 90000),
     CacheEntry("2.0", StartOfTime - 3600)}

\* The time between two calls, and the time a fetch takes.
ElapsedTimes == {0, 86399, 86400}
FetchDelays == {0, 2}

CacheDiskAnswers == {"ok", "openFails", "writeFails"}

NotChecked == [result |-> NoUpdate, read |-> FALSE, fetched |-> NoRelease,
               fetches |-> 0, wrote |-> FALSE, version |-> "", age |-> 0, fresh |-> FALSE]

\* What one call of Check leaves in lastCheck: what it did and returned, the
\* version it was called with, and the age the cache entry had.
Checked(c, ver, file, now) ==
    [result |-> c.result, read |-> c.read, fetched |-> c.fetched, fetches |-> c.fetches,
     wrote |-> c.wrote, version |-> ver,
     age |-> IF file.state = "entry" THEN now - file.checkedAt ELSE 0,
     fresh |-> file.state = "entry" /\ now - file.checkedAt < checkInterval]

UpdateIdle ==
    /\ version = ""
    /\ updateCache = NoCacheFile
    /\ wallClock = 0
    /\ fetchCount = 0
    /\ checkCount = 0
    /\ lastCheck = NotChecked

InitUpdate ==
    /\ version \in Versions
    /\ updateCache \in CacheFiles
    /\ wallClock = StartOfTime
    /\ fetchCount = 0
    /\ checkCount = 0
    /\ lastCheck = NotChecked

\* update.Check(version, dir), some time after the call before
CallCheck ==
    /\ checkCount < MaxChecks
    /\ \E elapsed \in ElapsedTimes, resp \in ReleaseResponses, delay \in FetchDelays,
          disk \in CacheDiskAnswers :
        \E c \in {Check(version, updateCache, wallClock + elapsed, resp, delay, disk)} :
            /\ updateCache' = c.cache
            /\ wallClock' = c.clock
            /\ fetchCount' = fetchCount + c.fetches
            /\ lastCheck' = Checked(c, version, updateCache, wallClock + elapsed)
    /\ checkCount' = checkCount + 1
    /\ UNCHANGED version
    /\ UNCHANGED <<resolveVars, jwtVars, exchVars, fwdVars, cfgVars, runVars>>

-----------------------------------------------------------------------------
(* cmd.go: run *)

NotExited == [exited |-> FALSE, code |-> 0]

RunIdle ==
    /\ pc = "idle"
    /\ osArgs = <<>>
    /\ goos = "none"
    /\ updateResult = "none"
    /\ stdout = <<>>
    /\ stderr = <<>>
    /\ exitStatus = NotExited

-----------------------------------------------------------------------------
(* runProxy, the steps that select the installation *)

ResolveIdle ==
    /\ rpc = "idle"
    /\ args = <<>>
    /\ flagOverride = NoOverride
    /\ ghArgs = <<>>
    /\ ghaInstallationID = ""
    /\ ghaOrg = ""
    /\ envOverride = NoOverride
    /\ configID = 0
    /\ listing = NotCalled
    /\ resolved = NoResult

InitResolve ==
    /\ rpc = "start"
    /\ args = <<>>
    /\ flagOverride = NoOverride
    /\ ghArgs = <<>>
    /\ ghaInstallationID = ""
    /\ ghaOrg = ""
    /\ envOverride = NoOverride
    /\ configID = 0
    /\ listing = NotCalled
    /\ resolved = NoResult

\* flagOverride, ghArgs := parseInstallationFlags(args)
ParseFlags ==
    /\ rpc = "start"
    /\ \E a \in ArgLists :
        LET parsed == parseInstallationFlags(a)
        IN  /\ args' = a
            /\ flagOverride' = parsed.override
            /\ ghArgs' = parsed.remaining
    /\ rpc' = "parsed"
    /\ UNCHANGED <<ghaInstallationID, ghaOrg, envOverride, configID, listing, resolved>>
    /\ UNCHANGED <<jwtVars, exchVars, fwdVars, cfgVars, runVars, updVars>>

\* envOverride := resolveInstallationFromEnv()
ReadEnv ==
    /\ rpc = "parsed"
    /\ \E envID \in EnvIDValues, envOrg \in EnvOrgValues :
        /\ ghaInstallationID' = envID
        /\ ghaOrg' = envOrg
        /\ envOverride' = resolveInstallationFromEnv(envID, envOrg)
    /\ rpc' = "env"
    /\ UNCHANGED <<args, flagOverride, ghArgs, configID, listing, resolved>>
    /\ UNCHANGED <<jwtVars, exchVars, fwdVars, cfgVars, runVars, updVars>>

\* installationID, err := resolveInstallation(jwtToken, flagOverride, envOverride,
\* cfg.InstallationID)
ResolveInstallation ==
    /\ rpc = "env"
    /\ \E cfgID \in ConfigIDs, resp \in ListingResponses :
        /\ configID' = cfgID
        /\ resolved' = resolveInstallation(flagOverride, envOverride, cfgID, resp)
        /\ listing' = IF resolved'.listCalls > 0 THEN resp ELSE NotCalled
    /\ rpc' = "resolved"
    /\ UNCHANGED <<args, flagOverride, ghArgs, ghaInstallationID, ghaOrg, envOverride>>
    /\ UNCHANGED <<jwtVars, exchVars, fwdVars, cfgVars, runVars, updVars>>

NextResolve == ParseFlags \/ ReadEnv \/ ResolveInstallation

InitSpecResolve ==
    InitResolve /\ JWTIdle /\ ExchangeIdle /\ ForwardIdle /\ ConfigIdle /\ RunIdle
        /\ UpdateIdle

SpecResolve == InitSpecResolve /\ [][NextResolve]_vars

-----------------------------------------------------------------------------
(* GenerateJWT on its own *)

InitSpecJWT ==
    InitJWT /\ ResolveIdle /\ ExchangeIdle /\ ForwardIdle /\ ConfigIdle /\ RunIdle
        /\ UpdateIdle

NextJWT == CallGenerateJWT

SpecJWT == InitSpecJWT /\ [][NextJWT]_vars

-----------------------------------------------------------------------------
(* GetInstallationToken on its own *)

InitSpecExchange ==
    InitExchange /\ ResolveIdle /\ JWTIdle /\ ForwardIdle /\ ConfigIdle /\ RunIdle
        /\ UpdateIdle

NextExchange == CallGetInstallationToken

SpecExchange == InitSpecExchange /\ [][NextExchange]_vars

-----------------------------------------------------------------------------
(* The forwarder on its own *)

InitSpecForward ==
    InitForward /\ ResolveIdle /\ JWTIdle /\ ExchangeIdle /\ ConfigIdle /\ RunIdle
        /\ UpdateIdle

NextForward == CallExecUnix \/ CallExecWindows \/ CallRunCapture

SpecForward == InitSpecForward /\ [][NextForward]_vars

-----------------------------------------------------------------------------
(* configure and config.Load on their own *)

NextConfig == Configure \/ LoadConfig

InitSpecConfig ==
    InitConfig /\ ResolveIdle /\ JWTIdle /\ ExchangeIdle /\ ForwardIdle /\ RunIdle
        /\ UpdateIdle

SpecConfig == InitSpecConfig /\ [][NextConfig]_vars

-----------------------------------------------------------------------------
(* update.Check called again and again, the cache file kept between the calls *)

NextUpdate == CallCheck

InitSpecUpdate ==
    InitUpdate /\ ResolveIdle /\ JWTIdle /\ ExchangeIdle /\ ForwardIdle /\ ConfigIdle
        /\ RunIdle

SpecUpdate == InitSpecUpdate /\ [][NextUpdate]_vars

-----------------------------------------------------------------------------
(* cmd.go: run, one invocation of gha from os.Args to the exit status *)

\* The case of run's switch that args selects.
Selected(a) ==
    IF Len(a) < 2 THEN "usage"
    ELSE IF a[2] = "configure" THEN "configure"
    ELSE IF a[2] \in {"--version", "-v"} THEN "version"
    ELSE IF a[2] \in {"--help", "-h"} THEN "help"
    ELSE "proxy"

\* What run writes to a stream: printUsage's text, the version line, an
\* "error: %v" line with the error it prints, the update notice, and what
\* runConfigure writes.
Usage == [kind |-> "usage", text |-> "gha - proxy gh commands with GitHub App authentication",
          err |-> NoError]
VersionLine == [kind |-> "version", text |-> "gha ", err |-> NoError]
ErrorLine(err) == [kind |-> "error", text |-> "error: ", err |-> err]
Notice == [kind |-> "notice", text |-> "A new version of gha is available", err |-> NoError]

Exited(code) == [exited |-> TRUE, code |-> code]

\* Mutant of checkForUpdate: a release request that fails is reported as an
\* error of the command.
checkForUpdate_ReportsFailure(home, ver, file, now, resp, delay, disk) ==
    LET c == Check(ver, file, now, resp, delay, disk)
    IN  IF Dir(home).err # NoError
        THEN [called |-> FALSE, out |-> <<>>,
              check |-> [result |-> NoUpdate, cache |-> file, read |-> FALSE,
                         fetched |-> NoRelease, fetches |-> 0, wrote |-> FALSE,
                         clock |-> now]]
        ELSE [called |-> TRUE,
              out |-> IF c.result.found THEN <<Notice>>
                      ELSE IF c.fetches > 0 /\ fetchLatestVersion(c.fetched) = ""
                      THEN <<ErrorLine([kind |-> "updateCheck"])>>
                      ELSE <<>>,
              check |-> c]

\* checkForUpdate(stderr): nothing when config.Dir fails or update.Check
\* returns nil, the notice otherwise.  `out` is what it writes, `check` what
\* update.Check did, if it was called.
checkForUpdate(home, ver, file, now, resp, delay, disk) ==
    LET c == Check(ver, file, now, resp, delay, disk)
    IN  IF Dir(home).err # NoError
        THEN [called |-> FALSE, out |-> <<>>,
              check |-> [result |-> NoUpdate, cache |-> file, read |-> FALSE,
                         fetched |-> NoRelease, fetches |-> 0, wrote |-> FALSE,
                         clock |-> now]]
        ELSE [called |-> TRUE, out |-> IF c.result.found THEN <<Notice>> ELSE <<>>,
              check |-> c]

\* The compact serialization token.SignedString returns.
CompactJWT(tok) ==
    tok.alg \o "." \o tok.claims.iss \o "." \o FormatInt(tok.claims.iat) \o "."
        \o FormatInt(tok.claims.exp) \o "." \o tok.signedBy

-----------------------------------------------------------------------------
(* The inputs of one invocation *)

RunArgLists ==
    {<<"gha">>,
     <<"gha", "--version">>, <<"gha", "-v">>, <<"gha", "--help">>, <<"gha", "-h">>,
     <<"gha", "configure">>,
     <<"gha", "pr", "list">>,
     <<"gha", "--org", "ORG-A", "pr", "list">>,
     <<"gha", "--installation-id=100", "pr">>,
     <<"gha", "pr", "--org=nope">>}

Builds == {"unix", "windows"}

\* The update check of one invocation: a development build and a release
\* build, no cache and a fresh one, a failed and an answered request.
RunVersions == {"dev", "1.2.3"}
RunCacheFiles == {NoCacheFile, CacheEntry("2.0", StartOfTime - 3600)}
RunReleaseResponses ==
    {[transport |-> "failed", status |-> 0, readable |-> FALSE,
      body |-> [json |-> FALSE, tag |-> ""]],
     [transport |-> "ok", status |-> 200, readable |-> TRUE,
      body |-> [json |-> TRUE, tag |-> "v1.9.0"]]}
RunCacheDiskAnswers == {"ok", "openFails"}

RunConfigFiles ==
    {NoConfigFile,
     ConfigText(FALSE, <<>>),
     ConfigText(TRUE, <<<<"app_id", "42">>, <<"installation_id", "300">>,
                        <<"private_key_path", "/keys/app.pem">>>>),
     ConfigText(TRUE, <<<<"app_id", "42">>, <<"private_key_path", "/keys/app.pem">>>>),
     ConfigText(TRUE, <<<<"app_id", "-5">>, <<"installation_id", "300">>,
                        <<"private_key_path", "/keys/app.pem">>>>),
     ConfigText(TRUE, <<<<"app_id", "42">>, <<"installation_id", "-1">>,
                        <<"private_key_path", "/keys/app.pem">>>>)}

RunStdinInputs ==
    {<<>>, <<"abc">>, <<"12345", "x">>, <<"12345", "300", "/none">>,
     <<"12345", "300", "/keys/app.pem">>, <<"12345", "", "~/app.pem">>}

RunEnvIDValues == {"", "200"}
RunEnvOrgValues == {"", "ORG-A"}

RunKeyFiles == KeyFiles

RunClockReadings == {[sec |-> 1700000029, nsec |-> 1]}

RunListingResponses ==
    {[transport |-> "failed", status |-> 0, installations |-> <<>>],
     [transport |-> "ok", status |-> 401, installations |-> <<>>],
     [transport |-> "ok", status |-> 200, installations |-> <<OrgA>>],
     [transport |-> "ok", status |-> 200, installations |-> <<OrgA, OrgB>>]}

Body(doc) == [doc |-> doc, docLen |-> 64, len |-> 64]

RunTokenResponses ==
    {[transport |-> "failed", status |-> 0, readable |-> FALSE, body |-> NoBody],
     [transport |-> "ok", status |-> 201, readable |-> FALSE, body |-> Body(TokenDoc("ghs_abc"))],
     [transport |-> "ok", status |-> 201, readable |-> TRUE, body |-> Body(TokenDoc("ghs_abc"))],
     [transport |-> "ok", status |-> 201, readable |-> TRUE, body |-> Body(TokenDoc(""))],
     [transport |-> "ok", status |-> 201, readable |-> TRUE, body |-> Body(TokenDoc("   "))],
     [transport |-> "ok", status |-> 201, readable |-> TRUE, body |-> Body(NotJSON)],
     [transport |-> "ok", status |-> 200, readable |-> TRUE, body |-> Body(TokenDoc("ghs_abc"))],
     [transport |-> "ok", status |-> 401, readable |-> TRUE, body |-> Body(NotJSON)]}

RunEnvironments ==
    {<<>>, <<"HOME=/home/user", "GH_TOKEN=old">>, <<"GITHUB_TOKEN=old2", "GH_TOKEN_EXTRA=keep">>}

InitRun ==
    /\ pc = "start"
    /\ osArgs = <<>>
    /\ goos \in Builds
    /\ updateResult = "none"
    /\ stdout = <<>>
    /\ stderr = <<>>
    /\ exitStatus = NotExited
    /\ cpc = "idle"
    /\ userHome \in HomeDirs
    /\ cfgFile \in RunConfigFiles
    /\ stdinLines = <<>>
    /\ configured = NotConfigured
    /\ loaded = NotLoaded
    /\ version \in RunVersions
    /\ updateCache \in RunCacheFiles
    /\ wallClock = StartOfTime
    /\ fetchCount = 0
    /\ checkCount = 0
    /\ lastCheck = NotChecked

\* run returns 1 after fmt.Fprintf(stderr, "error: %v\n", err)
Fail(err) ==
    /\ stderr' = Append(stderr, ErrorLine(err))
    /\ exitStatus' = Exited(1)
    /\ pc' = "exited"

\* run with no subcommand, --version, -v, --help or -h
RunInfo ==
    /\ pc = "start"
    /\ \E a \in RunArgLists :
        /\ Selected(a) \in {"usage", "version", "help"}
        /\ osArgs' = a
        /\ stdout' = Append(stdout, IF Selected(a) = "version" THEN VersionLine ELSE Usage)
        /\ exitStatus' = Exited(IF Selected(a) = "usage" THEN 1 ELSE 0)
    /\ pc' = "exited"
    /\ UNCHANGED <<goos, updateResult, stderr>>
    /\ UNCHANGED <<resolveVars, jwtVars, exchVars, fwdVars, cfgVars>>
    /\ UNCHANGED updVars

\* run: case "configure"
RunConfigure ==
    /\ pc = "start"
    /\ \E a \in RunArgLists, lines \in RunStdinInputs, disk \in DiskAnswers :
        /\ Selected(a) = "configure"
        /\ osArgs' = a
        /\ stdinLines' = lines
        /\ configured' = runConfigure(lines, userHome, disk, cfgFile)
        /\ cfgFile' = configured'.file
        /\ stderr' = stderr \o configured'.stderr
                        \o IF configured'.err # NoError THEN <<ErrorLine(configured'.err)>>
                           ELSE <<>>
        /\ exitStatus' = Exited(IF configured'.err # NoError THEN 1 ELSE 0)
    /\ cpc' = "configured"
    /\ pc' = "exited"
    /\ UNCHANGED <<goos, updateResult, stdout, userHome, loaded>>
    /\ UNCHANGED <<resolveVars, jwtVars, exchVars, fwdVars>>
    /\ UNCHANGED updVars

\* run: default, checkForUpdate(stderr)
RunCheckForUpdate ==
    /\ pc = "start"
    /\ \E a \in RunArgLists, resp \in RunReleaseResponses, disk \in RunCacheDiskAnswers :
        \E u \in {checkForUpdate(userHome, version, updateCache, wallClock, resp, 0, disk)} :
            /\ Selected(a) = "proxy"
            /\ osArgs' = a
            /\ updateResult' = IF u.check.result.found THEN "newer" ELSE "none"
            /\ stderr' = stderr \o u.out
            /\ updateCache' = u.check.cache
            /\ wallClock' = u.check.clock
            /\ fetchCount' = fetchCount + u.check.fetches
            /\ checkCount' = checkCount + (IF u.called THEN 1 ELSE 0)
            /\ lastCheck' = IF u.called
                             THEN Checked(u.check, version, updateCache, wallClock)
                             ELSE lastCheck
    /\ pc' = "flags"
    /\ UNCHANGED <<goos, stdout, exitStatus, version>>
    /\ UNCHANGED <<resolveVars, jwtVars, exchVars, fwdVars, cfgVars>>

\* runProxy(args[1:]): flagOverride, ghArgs := parseInstallationFlags(args)
ProxyParseFlags ==
    /\ pc = "flags"
    /\ LET parsed == parseInstallationFlags(Tail(osArgs))
       IN  /\ args' = Tail(osArgs)
           /\ flagOverride' = parsed.override
           /\ ghArgs' = parsed.remaining
    /\ rpc' = "parsed"
    /\ pc' = "env"
    /\ UNCHANGED <<ghaInstallationID, ghaOrg, envOverride, configID, listing, resolved>>
    /\ UNCHANGED <<osArgs, goos, updateResult, stdout, stderr, exitStatus>>
    /\ UNCHANGED <<jwtVars, exchVars, fwdVars, cfgVars>>
    /\ UNCHANGED updVars

\* runProxy: envOverride := resolveInstallationFromEnv()
ProxyReadEnv ==
    /\ pc = "env"
    /\ \E envID \in RunEnvIDValues, envOrg \in RunEnvOrgValues :
        /\ ghaInstallationID' = envID
        /\ ghaOrg' = envOrg
        /\ envOverride' = resolveInstallationFromEnv(envID, envOrg)
    /\ rpc' = "env"
    /\ pc' = "load"
    /\ UNCHANGED <<args, flagOverride, ghArgs, configID, listing, resolved>>
    /\ UNCHANGED <<osArgs, goos, updateResult, stdout, stderr, exitStatus>>
    /\ UNCHANGED <<jwtVars, exchVars, fwdVars, cfgVars>>
    /\ UNCHANGED updVars

\* runProxy: cfg, err := config.Load()
ProxyLoadConfig ==
    /\ pc = "load"
    /\ loaded' = Load(userHome, cfgFile)
    /\ cpc' = "loaded"
    /\ IF loaded'.err # NoError
       THEN Fail(loaded'.err)
       ELSE pc' = "sign" /\ UNCHANGED <<stderr, exitStatus>>
    /\ UNCHANGED <<userHome, cfgFile, stdinLines, configured>>
    /\ UNCHANGED <<osArgs, goos, updateResult, stdout>>
    /\ UNCHANGED <<resolveVars, jwtVars, exchVars, fwdVars>>
    /\ UNCHANGED updVars

\* runProxy: jwtToken, err := auth.GenerateJWT(cfg.AppID, cfg.PrivateKeyPath)
ProxyGenerateJWT ==
    /\ pc = "sign"
    /\ \E file \in RunKeyFiles, t \in RunClockReadings :
        /\ jwtAppID' = loaded.cfg.AppID
        /\ privateKeyFile' = file
        /\ clockNow' = IF GenerateJWT(loaded.cfg.AppID, file, t).err = NoError
                       THEN t ELSE NoTime
        /\ jwtResult' = GenerateJWT(loaded.cfg.AppID, file, t)
    /\ jpc' = "done"
    /\ IF jwtResult'.err # NoError
       THEN Fail([kind |-> "generatingJWT", cause |-> jwtResult'.err])
       ELSE pc' = "resolve" /\ UNCHANGED <<stderr, exitStatus>>
    /\ UNCHANGED <<osArgs, goos, updateResult, stdout>>
    /\ UNCHANGED <<resolveVars, exchVars, fwdVars, cfgVars>>
    /\ UNCHANGED updVars

\* runProxy: installationID, err := resolveInstallation(jwtToken, flagOverride,
\* envOverride, cfg.InstallationID)
ProxyResolveInstallation ==
    /\ pc = "resolve"
    /\ \E resp \in RunListingResponses :
        /\ configID' = loaded.cfg.InstallationID
        /\ resolved' = resolveInstallation(flagOverride, envOverride,
                                           loaded.cfg.InstallationID, resp)
        /\ listing' = IF resolved'.listCalls > 0 THEN resp ELSE NotCalled
    /\ rpc' = "resolved"
    /\ IF resolved'.err # NoError
       THEN Fail(resolved'.err)
       ELSE pc' = "exchange" /\ UNCHANGED <<stderr, exitStatus>>
    /\ UNCHANGED <<args, flagOverride, ghArgs, ghaInstallationID, ghaOrg, envOverride>>
    /\ UNCHANGED <<osArgs, goos, updateResult, stdout>>
    /\ UNCHANGED <<jwtVars, exchVars, fwdVars, cfgVars>>
    /\ UNCHANGED updVars

\* runProxy: installToken, err := auth.GetInstallationToken(jwtToken, installationID)
ProxyGetInstallationToken ==
    /\ pc = "exchange"
    /\ \E resp \in RunTokenResponses :
        /\ exchRequests' = Append(exchRequests,
                                  TokenRequest(CompactJWT(jwtResult.token), resolved.id))
        /\ exchResponse' = resp
        /\ exchResult' = GetInstallationToken(resp)
    /\ xpc' = "done"
    /\ IF exchResult'.err # NoError
       THEN Fail([kind |-> "gettingToken", cause |-> exchResult'.err])
       ELSE pc' = "forward" /\ UNCHANGED <<stderr, exitStatus>>
    /\ UNCHANGED <<osArgs, goos, updateResult, stdout>>
    /\ UNCHANGED <<resolveVars, jwtVars, fwdVars, cfgVars>>
    /\ UNCHANGED updVars

\* runProxy: return proxy.Exec(ghArgs, installToken).  An error Exec returns
\* is printed by run, which returns 1; when Exec does not return, the process
\* ends with the status Exec gives it.
ProxyExec ==
    /\ pc = "forward"
    /\ \E env \in RunEnvironments, gh \in GhInstallations :
        LET out == IF goos = "unix"
                   THEN ExecUnix(ghArgs, exchResult.token, env, gh)
                   ELSE ExecWindows(ghArgs, exchResult.token, env, gh)
        IN  /\ fwdCall' = [backend |-> goos, args |-> ghArgs, token |-> exchResult.token]
            /\ environ' = env
            /\ ghInstalled' = gh
            /\ lookPathCalls' = lookPathCalls + out.lookups
            /\ child' = out.child
            /\ fwdResult' = [returned |-> out.returned, err |-> out.err, exit |-> out.exit]
            /\ IF out.returned
               THEN IF out.err # NoError
                    THEN Fail(out.err)
                    ELSE /\ exitStatus' = Exited(0)
                         /\ pc' = "exited"
                         /\ UNCHANGED stderr
               ELSE /\ exitStatus' = Exited(out.exit)
                    /\ pc' = "exited"
                    /\ UNCHANGED stderr
    /\ fpc' = "done"
    /\ UNCHANGED <<osArgs, goos, updateResult, stdout>>
    /\ UNCHANGED <<resolveVars, jwtVars, exchVars, cfgVars>>
    /\ UNCHANGED updVars

NextRun ==
    \/ RunInfo
    \/ RunConfigure
    \/ RunCheckForUpdate
    \/ ProxyParseFlags
    \/ ProxyReadEnv
    \/ ProxyLoadConfig
    \/ ProxyGenerateJWT
    \/ ProxyResolveInstallation
    \/ ProxyGetInstallationToken
    \/ ProxyExec

InitSpecRun == InitRun /\ ResolveIdle /\ JWTIdle /\ ExchangeIdle /\ ForwardIdle

SpecRun == InitSpecRun /\ [][NextRun]_vars

-----------------------------------------------------------------------------
(* Claims about the selection of the installation, under SpecResolve *)

Resolved == rpc = "resolved"

RECURSIVE ToUpper(_)
ToUpper(s) ==
    IF s = "" THEN ""
    ELSE LET c == CharAt(s, 1)
             u == IF \E k \in 1..26 : CharAt(LowerLetters, k) = c
                  THEN CharAt(UpperLetters, CHOOSE k \in 1..26 : CharAt(LowerLetters, k) = c)
                  ELSE c
         IN  u \o ToUpper(SubSeq(s, 2, Len(s)))

SameIgnoringCase(s, t) == ToUpper(s) = ToUpper(t)

Listed == listing.installations

ListingAnswered == listing.transport = "ok" /\ listing.status = 200

\* The pairs (id, login) of everything listed, in the listing's order.
EveryListedPair(lines) ==
    /\ Len(lines) = Len(Listed)
    /\ \A i \in 1..Len(Listed) : lines[i] = <<Listed[i].id, Listed[i].login>>

\* The outcome is the one the org-name source `org` gives.
DecidedByOrg(org) ==
    /\ listing # NotCalled
    /\ resolved.err = NoError =>
        \E i \in 1..Len(Listed) :
            Listed[i].id = resolved.id /\ SameIgnoringCase(Listed[i].login, org)
    /\ resolved.err # NoError =>
        /\ resolved.err.kind \in {"listing", "orgNotFound"}
        /\ resolved.err.kind = "orgNotFound" => resolved.err.org = org

\* The outcome is auto-detection's.
DecidedByAutoDetect ==
    /\ listing # NotCalled
    /\ resolved.err = NoError => (Len(Listed) = 1 /\ Listed[1].id = resolved.id)
    /\ resolved.err # NoError =>
        resolved.err.kind \in {"listing", "noInstallations", "multiple"}

DecidedByID(id) == resolved.id = id /\ resolved.err = NoError

\* C1: resolveInstallation decides by the first present source in the order
\* flag id > flag org > env id > env org > config id > auto-detect, and a
\* successful result is the value that source supplies.
C1_Precedence ==
    Resolved =>
        IF flagOverride.id > 0 THEN DecidedByID(flagOverride.id)
        ELSE IF flagOverride.org # "" THEN DecidedByOrg(flagOverride.org)
        ELSE IF envOverride.id > 0 THEN DecidedByID(envOverride.id)
        ELSE IF envOverride.org # "" THEN DecidedByOrg(envOverride.org)
        ELSE IF configID > 0 THEN DecidedByID(configID)
        ELSE DecidedByAutoDetect

\* Every source supplies a value and the flag id decided.
C1_Witness ==
    /\ Resolved
    /\ flagOverride.id > 0 /\ flagOverride.org # ""
    /\ envOverride.id > 0 /\ envOverride.org # ""
    /\ configID > 0
    /\ resolved.id = flagOverride.id
    /\ resolved.id # envOverride.id /\ resolved.id # configID

MalformedIDFlags == {"--installation-id=0", "--installation-id=-5"}

\* Argument lists whose only flags are --installation-id with a malformed value.
OnlyMalformedIDFlags(a) ==
    /\ a # <<>>
    /\ \/ a = <<"--installation-id", "abc">>
       \/ \A i \in 1..Len(a) : a[i] \in MalformedIDFlags

MalformedEnvIDs == {"bad", "99999999999999999999"}

\* C2: a malformed numeric override (flag or environment) is no error: the
\* override id stays 0, resolution goes on to the next tier and succeeds when
\* a later tier supplies a valid value.
C2_MalformedIDIsAbsent ==
    /\ (rpc # "start" /\ OnlyMalformedIDFlags(args)) => flagOverride = NoOverride
    /\ (rpc \in {"env", "resolved"} /\ ghaInstallationID \in MalformedEnvIDs) =>
            envOverride.id = 0
    /\ (Resolved /\ OnlyMalformedIDFlags(args)) =>
        /\ ghaInstallationID = "200" => DecidedByID(200)
        /\ (ghaInstallationID \in MalformedEnvIDs \cup {""} /\ ghaOrg # "") =>
                /\ DecidedByOrg(ghaOrg)
                /\ (ListingAnswered /\ \E i \in 1..Len(Listed) :
                        SameIgnoringCase(Listed[i].login, ghaOrg)) =>
                            resolved.err = NoError
        /\ (ghaInstallationID \in MalformedEnvIDs \cup {""} /\ ghaOrg = "") =>
                /\ configID > 0 => DecidedByID(configID)
                /\ configID <= 0 =>
                    /\ DecidedByAutoDetect
                    /\ (ListingAnswered /\ Len(Listed) = 1) => DecidedByID(Listed[1].id)
    /\ (Resolved /\ flagOverride = NoOverride /\ ghaInstallationID \in MalformedEnvIDs
            /\ ghaOrg = "" /\ configID > 0) => DecidedByID(configID)

\* A malformed flag id and a malformed environment id, and the configuration
\* supplied the installation.
C2_Witness ==
    /\ Resolved
    /\ OnlyMalformedIDFlags(args)
    /\ ghaInstallationID \in MalformedEnvIDs
    /\ ghaOrg = ""
    /\ configID > 0
    /\ resolved.id = configID /\ resolved.err = NoError

NoSourcePresent ==
    /\ flagOverride.id <= 0 /\ flagOverride.org = ""
    /\ envOverride.id <= 0 /\ envOverride.org = ""
    /\ configID <= 0

\* C3: auto-detection fails on an empty listing, returns the only listed
\* installation, and fails on several, enumerating every (id, login) pair; it
\* never picks one of several.
C3_AutoDetect ==
    (Resolved /\ NoSourcePresent /\ ListingAnswered) =>
        /\ Len(Listed) = 0 =>
            resolved.id = 0 /\ resolved.err = [kind |-> "noInstallations"]
        /\ Len(Listed) = 1 => DecidedByID(Listed[1].id)
        /\ Len(Listed) > 1 =>
            /\ resolved.id = 0
            /\ resolved.err.kind = "multiple"
            /\ EveryListedPair(resolved.err.available)

C3_Witness ==
    /\ Resolved /\ NoSourcePresent /\ ListingAnswered
    /\ Len(Listed) > 1
    /\ resolved.err.kind = "multiple"

\* The org name that decides, when an org name decides.
DecidingOrg ==
    IF flagOverride.id <= 0 /\ flagOverride.org # "" THEN flagOverride.org
    ELSE IF flagOverride.id <= 0 /\ envOverride.id <= 0 /\ envOverride.org # ""
    THEN envOverride.org
    ELSE ""

\* C4: resolution by org name returns the id of a listed installation whose
\* login equals the name ignoring letter case; with no such login it fails,
\* naming the org and listing every installation; it never returns an id whose
\* login does not match.
C4_ByOrg ==
    (Resolved /\ DecidingOrg # "" /\ ListingAnswered) =>
        LET matching == {i \in 1..Len(Listed) :
                            SameIgnoringCase(Listed[i].login, DecidingOrg)}
        IN  /\ matching # {} =>
                /\ resolved.err = NoError
                /\ \E i \in matching : resolved.id = Listed[i].id
            /\ matching = {} =>
                /\ resolved.id = 0
                /\ resolved.err.kind = "orgNotFound"
                /\ resolved.err.org = DecidingOrg
                /\ EveryListedPair(resolved.err.available)
            /\ (Listed = <<[id |-> 111, login |-> "org-a"], [id |-> 222, login |-> "org-b"]>>
                    /\ DecidingOrg = "Org-B") => DecidedByID(222)

\* The listing (111, org-a), (222, org-b) and the override Org-B gave 222.
C4_Witness ==
    /\ Resolved
    /\ DecidingOrg = "Org-B"
    /\ Listed = <<[id |-> 111, login |-> "org-a"], [id |-> 222, login |-> "org-b"]>>
    /\ resolved.id = 222 /\ resolved.err = NoError

-----------------------------------------------------------------------------
(* Claims about the assertion, under SpecJWT *)

Signed == jpc = "done" /\ jwtResult.err = NoError

Claims == jwtResult.token.claims

\* C5 as stated: for every app id and key for which GenerateJWT succeeds, the
\* expiry claim is exactly 10 minutes after the issued-at claim.
C5_ExpiryTenMinutesAfterIssuedAt ==
    Signed => Claims.exp - Claims.iat = 10 * 60

\* C5 as amended: for every app id and key for which GenerateJWT succeeds, the
\* expiry claim is exactly 10 minutes and 30 seconds after the issued-at
\* claim.
C5_ExpiryAfterIssuedAt ==
    Signed => Claims.exp - Claims.iat = 10 * 60 + 30

C5_Witness ==
    /\ Signed
    /\ clockNow.nsec # 0
    /\ Claims.exp - Claims.iat = 630

\* C6: for every positive app id the assertion has the decimal string of the
\* app id as issuer, the clock reading minus 30 seconds as issued-at, the same
\* reading plus 10 minutes as expiry (in whole seconds, the unit of the
\* claims), and is signed with RS256.
C6_AssertionClaims ==
    (Signed /\ jwtAppID > 0) =>
        /\ Claims.iss # ""
        /\ \A i \in 1..Len(Claims.iss) : IsDigit(CharAt(Claims.iss, i))
        /\ CharAt(Claims.iss, 1) # "0"
        /\ DigitsValue(Claims.iss, 0) = jwtAppID
        /\ Claims.iat = clockNow.sec - 30
        /\ Claims.exp = clockNow.sec + 600
        /\ jwtResult.token.alg = "RS256"
        /\ jwtResult.token.signedBy # "none"

C6_Witness ==
    /\ Signed
    /\ jwtAppID = 12345
    /\ Claims.iss = "12345"
    /\ clockNow.nsec # 0
    /\ Claims.iat = clockNow.sec - 30

-----------------------------------------------------------------------------
(* Claims about the token exchange, under SpecExchange *)

Exchanged == xpc = "done"

Answered == exchResponse.transport = "ok"

NonSuccessStatus == exchResponse.status < 200 \/ exchResponse.status > 299

\* C7 as stated: when the endpoint answers with a non-2xx status, no token is
\* returned and the error carries the exact status code and the raw response
\* body.
C7_StatusAndRawBody ==
    (Exchanged /\ Answered /\ NonSuccessStatus) =>
        /\ exchResult.token = ""
        /\ exchResult.err.kind = "api"
        /\ exchResult.err.status = exchResponse.status
        /\ exchResult.err.body = exchResponse.body

\* C7 as amended: when the endpoint answers with a non-2xx status and the
\* body is read without error, no token is returned and the error carries the
\* exact status code and the body as read, which is the raw body cut to its
\* first 1 MiB; when the body cannot be read, no token is returned either.
C7_StatusAndBodyAsRead ==
    (Exchanged /\ Answered /\ NonSuccessStatus) =>
        /\ exchResult.token = ""
        /\ exchResult.err # NoError
        /\ exchResponse.readable =>
            /\ exchResult.err.kind = "api"
            /\ exchResult.err.status = exchResponse.status
            /\ exchResult.err.body.doc = exchResponse.body.doc
            /\ exchResult.err.body.docLen = exchResponse.body.docLen
            /\ exchResponse.body.len <= 1048576 =>
                    exchResult.err.body = exchResponse.body
            /\ exchResponse.body.len > 1048576 => exchResult.err.body.len = 1048576

\* A 401 whose body was read whole and is carried by the error.
C7_Witness ==
    /\ Exchanged /\ Answered
    /\ exchResponse.status = 401
    /\ exchResponse.readable
    /\ exchResult.err.kind = "api"
    /\ exchResult.err.status = 401
    /\ exchResult.err.body = exchResponse.body

\* A 201 response read whole whose text is a JSON object of the expected shape.
WellFormedSuccess ==
    /\ Answered
    /\ exchResponse.readable
    /\ exchResponse.status = 201
    /\ exchResponse.body.doc.json
    /\ exchResponse.body.docLen <= 1048576

TokenField ==
    IF exchResponse.body.doc.hasToken THEN exchResponse.body.doc.token ELSE ""

\* C8: GetInstallationToken never returns success with an empty token: a
\* well-formed success response whose token field is empty or missing gives
\* the 'empty token' error, which no transport failure and no status rejection
\* gives.
C8_NoEmptyToken ==
    Exchanged =>
        /\ exchResult.err = NoError => exchResult.token # ""
        /\ (WellFormedSuccess /\ TokenField = "") =>
                exchResult.token = "" /\ exchResult.err = [kind |-> "emptyToken"]
        /\ exchResult.err.kind = "emptyToken" => (WellFormedSuccess /\ TokenField = "")

C8_Witness ==
    /\ Exchanged
    /\ WellFormedSuccess
    /\ ~exchResponse.body.doc.hasToken
    /\ exchResult.err.kind = "emptyToken"

-----------------------------------------------------------------------------
(* Claims about the forwarder, under SpecForward *)

Forwarded == fpc = "done"

\* Only white space, if anything.
Blank(token) == \A i \in 1..Len(token) : CharAt(token, i) \in {" ", "\t", "\n", "\r", "\f"}

\* C9: for an empty or whitespace-only token both Exec and RunCapture return
\* the empty-token error without looking up gh and without launching any
\* process, even when gh is missing from PATH.
C9_BlankTokenRejectedFirst ==
    (Forwarded /\ Blank(fwdCall.token)) =>
        /\ fwdResult.returned
        /\ fwdResult.err = errEmptyToken
        /\ lookPathCalls = 0
        /\ child = NoChild

\* A whitespace-only token, gh missing from PATH.
C9_Witness ==
    /\ Forwarded
    /\ fwdCall.token = "   "
    /\ fwdCall.backend = "unix"
    /\ ~ghInstalled.onPath
    /\ fwdResult.err = errEmptyToken

\* The name of an environment entry: what stands before its first "=".
RECURSIVE EntryName(_)
EntryName(e) ==
    IF e = "" \/ CharAt(e, 1) = "=" THEN ""
    ELSE CharAt(e, 1) \o EntryName(SubSeq(e, 2, Len(e)))

Injected == "GH_TOKEN=" \o fwdCall.token

\* C10 as stated: the child environment contains no variable under the
\* deny-listed name prefixes GH_TOKEN and GITHUB_TOKEN except the single
\* freshly injected token variable.
C10_NoVariableUnderPrefixes ==
    (Forwarded /\ child.started) =>
        /\ child.env[Len(child.env)] = Injected
        /\ \A i \in 1..(Len(child.env) - 1) :
            /\ ~HasPrefix(EntryName(child.env[i]), "GH_TOKEN")
            /\ ~HasPrefix(EntryName(child.env[i]), "GITHUB_TOKEN")

\* C10 as amended: the child environment contains no variable named GH_TOKEN
\* or GITHUB_TOKEN except the single freshly injected token variable, its last
\* entry; a variable whose name only begins with one of these names is kept.
C10_NoVariableNamedAsDenied ==
    (Forwarded /\ child.started) =>
        /\ child.env[Len(child.env)] = Injected
        /\ \A i \in 1..(Len(child.env) - 1) :
            EntryName(child.env[i]) \notin {"GH_TOKEN", "GITHUB_TOKEN"}
        /\ \A i \in 1..Len(environ) :
            EntryName(environ[i]) \notin {"GH_TOKEN", "GITHUB_TOKEN"} =>
                \E j \in 1..(Len(child.env) - 1) : child.env[j] = environ[i]

\* Both denied variables were set, and gh was started without them.
C10_Witness ==
    /\ Forwarded /\ child.started
    /\ \E i \in 1..Len(environ) : EntryName(environ[i]) = "GH_TOKEN"
    /\ \E i \in 1..Len(environ) : EntryName(environ[i]) = "GITHUB_TOKEN"
    /\ child.env = <<Injected>>

EntriesNamed(env, name) == {i \in 1..Len(env) : EntryName(env[i]) = name}

\* C11: whatever the ambient environment defines, GH_TOKEN and GITHUB_TOKEN
\* several times included, the child environment has exactly one GH_TOKEN
\* entry, it is the last entry, its value is the token handed to the
\* forwarder, and there is no GITHUB_TOKEN entry.
C11_ExactlyOneGhTokenLast ==
    (Forwarded /\ child.started) =>
        /\ Cardinality(EntriesNamed(child.env, "GH_TOKEN")) = 1
        /\ EntriesNamed(child.env, "GH_TOKEN") = {Len(child.env)}
        /\ child.env[Len(child.env)] = "GH_TOKEN=" \o fwdCall.token
        /\ EntriesNamed(child.env, "GITHUB_TOKEN") = {}

\* GH_TOKEN was defined twice, and gh was started.
C11_Witness ==
    /\ Forwarded /\ child.started
    /\ Cardinality(EntriesNamed(environ, "GH_TOKEN")) = 2
    /\ Cardinality(EntriesNamed(child.env, "GH_TOKEN")) = 1

-----------------------------------------------------------------------------
(* Claims about the arguments handed to gh, under SpecResolve *)

FlagsParsed == rpc # "start"

BareFlags == {"--installation-id", "--org"}

JoinedFlag(t) == HasPrefix(t, "--installation-id=") \/ HasPrefix(t, "--org=")

\* Position i holds the value of the bare flag before it.
RECURSIVE IsFlagValue(_, _)
IsFlagValue(a, i) == i > 1 /\ a[i - 1] \in BareFlags /\ ~IsFlagValue(a, i - 1)

\* Position i holds an installation-selection flag token.
IsFlagToken(a, i) == ~IsFlagValue(a, i) /\ (a[i] \in BareFlags \/ JoinedFlag(a[i]))

\* Position i holds an installation-selection flag token that has a value:
\* joined to it, or in the position after it.
IsFlagWithValue(a, i) ==
    ~IsFlagValue(a, i) /\ ((a[i] \in BareFlags /\ i < Len(a)) \/ JoinedFlag(a[i]))

\* The elements of `a` at the positions in `keep`, in their order.
Restrict(a, keep) ==
    LET upTo[i \in 0..Len(a)] ==
            IF i = 0 THEN <<>>
            ELSE IF i \in keep THEN Append(upTo[i - 1], a[i]) ELSE upTo[i - 1]
    IN  upTo[Len(a)]

\* C12 as stated: the argument list handed to gh is the user's argument list
\* with the installation-selection flag tokens and their values removed, every
\* other argument unchanged and in its order, none added, none dropped.
C12_FlagTokensRemoved ==
    FlagsParsed =>
        ghArgs = Restrict(args, {i \in 1..Len(args) :
                                    ~IsFlagToken(args, i) /\ ~IsFlagValue(args, i)})

\* C12 as amended: the argument list handed to gh is the user's argument list
\* with every installation-selection flag that has a value removed together
\* with its value, every other argument unchanged and in its order, none
\* added, none dropped; a bare --installation-id or --org that is the last
\* argument has no value and is handed to gh.
C12_FlagsWithValueRemoved ==
    FlagsParsed =>
        /\ ghArgs = Restrict(args, {i \in 1..Len(args) :
                                    ~IsFlagWithValue(args, i) /\ ~IsFlagValue(args, i)})
        /\ (Len(args) > 0 /\ IsFlagToken(args, Len(args)) /\ args[Len(args)] \in BareFlags)
                => (Len(ghArgs) > 0 /\ ghArgs[Len(ghArgs)] = args[Len(args)])

\* A flag was removed and another argument was handed on.
C12_Witness ==
    /\ FlagsParsed
    /\ args = <<"--org=Org-B", "abc">>
    /\ ghArgs = <<"abc">>

-----------------------------------------------------------------------------
(* Claims about the configuration, under SpecConfig *)

\* configure succeeded, its Installation ID answer being empty.
ConfiguredForAutoDetect ==
    /\ cpc \in {"configured", "reloaded"}
    /\ configured.err = NoError
    /\ Len(stdinLines) = 3
    /\ TrimSpace(stdinLines[2]) = ""

\* C16: an unset installation id (0) is a legal persisted configuration:
\* after configure was answered with an empty Installation ID, config.Load
\* succeeds and returns InstallationID = 0.
C16_UnsetInstallationIDLoads ==
    (ConfiguredForAutoDetect /\ cpc = "reloaded") =>
        /\ loaded.err = NoError
        /\ loaded.cfg.InstallationID = 0
        /\ loaded.cfg.AppID > 0

\* C17: every configuration config.Load returns without error has AppID > 0:
\* a persisted app_id that is missing, zero or negative makes Load fail.
C17_LoadedAppIDPositive ==
    (cpc \in {"loaded", "reloaded"} /\ loaded.err = NoError) => loaded.cfg.AppID > 0

-----------------------------------------------------------------------------
(* Claims about the listing call, under SpecResolve *)

\* The numeric id that decides the resolution, 0 when an org name or
\* auto-detect decides it.
DecidingID ==
    IF flagOverride.id > 0 THEN flagOverride.id
    ELSE IF flagOverride.org # "" THEN 0
    ELSE IF envOverride.id > 0 THEN envOverride.id
    ELSE IF envOverride.org # "" THEN 0
    ELSE IF configID > 0 THEN configID
    ELSE 0

\* C15: when a numeric id decides the resolution (a valid flag id, a valid
\* env id that is reached, a non-zero config id that is reached) the listing
\* API is not called and the id is used as it is; the listing API is called
\* only when an org name or auto-detect decides.
C15_NoListingForNumericID ==
    Resolved =>
        /\ DecidingID > 0 =>
            /\ listing = NotCalled
            /\ resolved.listCalls = 0
            /\ resolved = [id |-> DecidingID, err |-> NoError, listCalls |-> 0]
        /\ DecidingID = 0 => (listing # NotCalled /\ resolved.listCalls = 1)

\* The config id decided, an id no listing of the model holds.
C15_Witness ==
    /\ Resolved
    /\ flagOverride = NoOverride /\ envOverride = NoOverride
    /\ configID = 300
    /\ listing = NotCalled
    /\ resolved.id = 300

-----------------------------------------------------------------------------
(* Claims about one invocation, under SpecRun *)

Finished == pc = "exited"

ProxyRun == Len(osArgs) >= 2 /\ Selected(osArgs) = "proxy"

\* gh was to be launched and no process was started.
LaunchFailed == fpc = "done" /\ ~child.started

\* A step of the pipeline has failed.
StepFailed ==
    \/ loaded.err # NoError
    \/ jwtResult.err # NoError
    \/ resolved.err # NoError
    \/ exchResult.err # NoError
    \/ LaunchFailed

ErrorReported == \E i \in 1..Len(stderr) : stderr[i].kind = "error"

\* C13: in every proxy invocation the steps happen in the order load config,
\* sign the assertion, resolve the installation, exchange the token, launch
\* gh, each only after every earlier one succeeded; if any step fails gh is
\* never launched, an error is reported and run returns 1, otherwise gh runs
\* and its exit status is the final status.
C13_SequentialAllOrNothing ==
    /\ jpc = "done" => (cpc = "loaded" /\ loaded.err = NoError)
    /\ rpc = "resolved" => (jpc = "done" /\ jwtResult.err = NoError)
    /\ xpc = "done" => (rpc = "resolved" /\ resolved.err = NoError)
    /\ fpc = "done" => (xpc = "done" /\ exchResult.err = NoError)
    /\ (Finished /\ ProxyRun) =>
        IF StepFailed
        THEN ~child.started /\ ErrorReported /\ exitStatus = Exited(1)
        ELSE child.started /\ exitStatus = Exited(ghInstalled.exit)

ListingFailed == listing # NotCalled /\ ~(listing.transport = "ok" /\ listing.status = 200)

LastLine(stream) == stream[Len(stream)]

\* C14: network calls are never retried: in one invocation at most one
\* listing request and at most one token-exchange request are issued, and a
\* failure of either is the invocation's error, reported without a further
\* request.
C14_NoRetries ==
    /\ resolved.listCalls <= 1
    /\ Len(exchRequests) <= 1
    /\ listing # NotCalled => resolved.listCalls = 1
    /\ (Finished /\ ListingFailed) =>
        /\ resolved.err.kind = "listing"
        /\ LastLine(stderr) = ErrorLine(resolved.err)
        /\ exitStatus = Exited(1)
        /\ exchRequests = <<>>
        /\ ~child.started
    /\ (Finished /\ xpc = "done" /\ exchResult.err # NoError) =>
        /\ LastLine(stderr).kind = "error"
        /\ LastLine(stderr).err.cause = exchResult.err
        /\ exitStatus = Exited(1)
        /\ Len(exchRequests) = 1
        /\ ~child.started

\* The listing was asked once and answered, then the token request failed in
\* transport.
C14_Witness ==
    /\ Finished
    /\ listing # NotCalled /\ resolved.listCalls = 1
    /\ exchResponse.transport = "failed"
    /\ Len(exchRequests) = 1
    /\ exitStatus = Exited(1)

\* The token the exchange endpoint put into its response, "" when none.
EndpointToken ==
    IF xpc = "done" /\ exchResponse.transport = "ok" /\ exchResponse.body.doc.hasToken
    THEN exchResponse.body.doc.token
    ELSE ""

\* The line's text holds the string s: the line of a rejected status quotes
\* the response body as read.
LineHolds(line, s) ==
    /\ line.err.kind = "gettingToken"
    /\ line.err.cause.kind = "api"
    /\ line.err.cause.body.len >= line.err.cause.body.docLen
    /\ line.err.cause.body.doc.hasToken
    /\ line.err.cause.body.doc.token = s

\* C18: the installation token the exchange endpoint returned is never
\* written to disk, to stdout or to stderr, error messages included; it
\* flows only to the GH_TOKEN entry of the launched child's environment.
C18_TokenOnlyInChildEnvironment ==
    EndpointToken # "" =>
        /\ \A i \in 1..Len(stdout) : ~LineHolds(stdout[i], EndpointToken)
        /\ \A i \in 1..Len(stderr) : ~LineHolds(stderr[i], EndpointToken)
        /\ \A i \in 1..Len(cfgFile.entries) : cfgFile.entries[i][2] # EndpointToken
        /\ \A i \in 1..Len(child.argv) : child.argv[i] # EndpointToken
        /\ \A i \in 1..(Len(child.env) - 1) : child.env[i] # "GH_TOKEN=" \o EndpointToken

CommandFailed ==
    \/ Selected(osArgs) = "configure" /\ configured.err # NoError
    \/ Selected(osArgs) = "proxy" /\ StepFailed

\* C19: run's exit code is 0 for --version, -v, --help, -h and for a
\* successful configure, and 1 whenever the selected command fails or no
\* subcommand is given; every failure message is written to stderr and never
\* to stdout, help and version text to stdout and never to stderr.
C19_ExitCodesAndStreams ==
    Finished =>
        /\ Selected(osArgs) \in {"version", "help"} => exitStatus = Exited(0)
        /\ (Selected(osArgs) = "configure" /\ configured.err = NoError) =>
                exitStatus = Exited(0)
        /\ (Selected(osArgs) = "usage" \/ CommandFailed) => exitStatus = Exited(1)
        /\ \A i \in 1..Len(stdout) : stdout[i].kind \in {"usage", "version"}
        /\ \A i \in 1..Len(stderr) : stderr[i].kind \notin {"usage", "version"}
        /\ Selected(osArgs) \in {"usage", "version", "help"} =>
                (Len(stdout) = 1 /\ stderr = <<>>)

-----------------------------------------------------------------------------
(* Claims about the two builds of Exec, under SpecForward *)

\* C20: the process-replacement Exec and the spawn-and-wait Exec are
\* observably equivalent: for the same args, token and environment they make
\* the same checks in the same order, give gh the same argument list and
\* environment, report the same error when gh cannot be found or started,
\* and finish with gh's own exit code.
C20_BackendsEquivalent ==
    (Forwarded /\ fwdCall.backend \in {"unix", "windows"}) =>
        LET u == ExecUnix(fwdCall.args, fwdCall.token, environ, ghInstalled)
            w == ExecWindows(fwdCall.args, fwdCall.token, environ, ghInstalled)
            mine == IF fwdCall.backend = "unix" THEN u ELSE w
        IN  /\ fwdResult = [returned |-> mine.returned, err |-> mine.err, exit |-> mine.exit]
            /\ child = mine.child
            /\ u.lookups = w.lookups
            /\ u.child = w.child
            /\ u.returned = w.returned
            /\ u.err = w.err
            /\ u.child.started => (u.exit = ghInstalled.exit /\ w.exit = ghInstalled.exit)

-----------------------------------------------------------------------------
(* Further claims about the token exchange, under SpecExchange *)

\* C22: GetInstallationToken returns a token only when the response status
\* is exactly 201: every other status, another 2xx such as 200 with a
\* well-formed token body included, is an error and no token is returned.
C22_TokenOnlyFor201 ==
    Exchanged =>
        /\ (exchResult.err = NoError \/ exchResult.token # "") =>
                (Answered /\ exchResponse.status = 201)
        /\ (Answered /\ exchResponse.status # 201) =>
            /\ exchResult.token = ""
            /\ exchResult.err # NoError
            /\ exchResponse.readable =>
                (exchResult.err.kind = "api" /\ exchResult.err.status = exchResponse.status)

\* A 200 whose body is a well-formed token document was refused.
C22_Witness ==
    /\ Exchanged /\ Answered
    /\ exchResponse.status = 200
    /\ exchResponse.readable
    /\ exchResponse.body.doc = TokenDoc("ghs_abc")
    /\ exchResponse.body.len = exchResponse.body.docLen
    /\ exchResult.token = ""
    /\ exchResult.err.kind = "api"

-----------------------------------------------------------------------------
(* Further claims about the selection of the installation, under SpecResolve *)

\* C23: an org name that the precedence chain selects is final: when the
\* listing call fails or no login matches the name, resolution fails with
\* that error and no lower tier is used, even when the environment or the
\* configuration supplies a valid id, and auto-detect is not attempted.
C23_OrgOverrideIsFinal ==
    (Resolved /\ DecidingOrg # "") =>
        LET matching == {i \in 1..Len(Listed) :
                            SameIgnoringCase(Listed[i].login, DecidingOrg)}
        IN  /\ listing # NotCalled
            /\ resolved.listCalls = 1
            /\ ~ListingAnswered =>
                /\ resolved.id = 0
                /\ resolved.err.kind = "listing"
                /\ resolved.err.cause = GetInstallations(listing).err
            /\ (ListingAnswered /\ matching = {}) =>
                /\ resolved.id = 0
                /\ resolved.err.kind = "orgNotFound"
                /\ resolved.err.org = DecidingOrg
            /\ resolved.err.kind \notin {"noInstallations", "multiple"}
            /\ resolved.err = NoError =>
                \E i \in matching : resolved.id = Listed[i].id

\* The flag org matched no login while the environment and the configuration
\* both held a valid id.
C23_Witness ==
    /\ Resolved
    /\ flagOverride.id = 0 /\ flagOverride.org # ""
    /\ envOverride.id > 0
    /\ configID > 0
    /\ ListingAnswered
    /\ resolved.id = 0
    /\ resolved.err.kind = "orgNotFound"

-----------------------------------------------------------------------------
(* Further claims about the forwarder, under SpecForward *)

DeniedNames == {"GH_TOKEN", "GITHUB_TOKEN"}

\* The entry is NAME=value with NAME one of the keys.
NamedByKey(e) == EntryName(e) \in DeniedNames /\ Len(EntryName(e)) < Len(e)

-----------------------------------------------------------------------------
(* Further claims about the arguments handed to gh, under SpecResolve *)

IsIDFlag(t) == t = "--installation-id" \/ HasPrefix(t, "--installation-id=")

\* The value of the flag at position i: what follows the "=", or the next
\* argument.
FlagValue(a, i) ==
    IF a[i] \in BareFlags THEN a[i + 1]
    ELSE IF IsIDFlag(a[i]) THEN SubSeq(a[i], Len("--installation-id=") + 1, Len(a[i]))
    ELSE SubSeq(a[i], Len("--org=") + 1, Len(a[i]))

\* The text is a decimal numeral of a positive 64-bit integer.
ValidID(v) == ParseInt(v).ok /\ ParseInt(v).val > 0

Last(S) == CHOOSE i \in S : \A j \in S : j <= i

\* The positions of the --installation-id flags with a valid value, and of
\* the --org flags with a value.
ValidIDFlags(a) ==
    {i \in 1..Len(a) : IsFlagWithValue(a, i) /\ IsIDFlag(a[i]) /\ ValidID(FlagValue(a, i))}

OrgFlags(a) == {i \in 1..Len(a) : IsFlagWithValue(a, i) /\ ~IsIDFlag(a[i])}

\* C26: parseInstallationFlags strips the installation-selection flags
\* wherever they stand: the remaining list has no element starting with
\* --installation-id= or --org=, and has a bare --installation-id or --org
\* only as its last element and only when that was the last input argument;
\* a flag with an invalid value is removed together with its value; of a
\* repeated flag the last valid occurrence gives the override (for --org
\* every occurrence with a value gives one, an empty value included).
C26_FlagsStrippedEverywhere ==
    FlagsParsed =>
        /\ \A j \in 1..Len(ghArgs) : ~JoinedFlag(ghArgs[j])
        /\ \A j \in 1..Len(ghArgs) :
            ghArgs[j] \in BareFlags =>
                /\ j = Len(ghArgs)
                /\ args[Len(args)] = ghArgs[j]
                /\ ~IsFlagValue(args, Len(args))
        /\ ghArgs = Restrict(args, {i \in 1..Len(args) :
                            ~IsFlagWithValue(args, i) /\ ~IsFlagValue(args, i)})
        /\ flagOverride.id = IF ValidIDFlags(args) = {} THEN 0
                             ELSE ParseInt(FlagValue(args, Last(ValidIDFlags(args)))).val
        /\ flagOverride.org = IF OrgFlags(args) = {} THEN ""
                              ELSE FlagValue(args, Last(OrgFlags(args)))

\* The flag was given twice, each time with a valid id, and the second
\* id is the override.
C26_Witness ==
    /\ FlagsParsed
    /\ args = <<"--installation-id=100", "--installation-id=7">>
    /\ flagOverride.id = 7
    /\ ghArgs = <<>>

-----------------------------------------------------------------------------
(* Further claims about one invocation, under SpecRun *)

PrivateKeyTypes == {"RSA PRIVATE KEY", "PRIVATE KEY"}

\* The positions of the blocks of the key file that are typed as private keys.
KeyBlocks == {i \in 1..Len(privateKeyFile.blocks) :
                privateKeyFile.blocks[i].type \in PrivateKeyTypes}

FirstKeyBlock == privateKeyFile.blocks[CHOOSE i \in KeyBlocks : \A j \in KeyBlocks : i <= j]

\* The DER bytes hold an RSA key, as PKCS#1 or as PKCS#8.
HoldsRSAKey(der) ==
    der.encoding = "pkcs1" \/ (der.encoding = "pkcs8" /\ der.algorithm = "rsa")

\* C25: key loading goes through the PEM blocks in file order, passes over
\* the blocks that are not typed as private keys and uses the first block
\* typed RSA PRIVATE KEY or PRIVATE KEY: what that block gives (its key, a
\* parse error or a not-RSA error) is the result and no later block is
\* tried; a file without such a block fails with the no-key-block error; on
\* a key error no assertion is produced and no request is sent.
C25_FirstKeyBlockDecides ==
    (jpc = "done" /\ privateKeyFile.readable) =>
        /\ KeyBlocks = {} => jwtResult.err = [kind |-> "noKeyBlock"]
        /\ KeyBlocks # {} =>
            LET der == FirstKeyBlock.der
            IN  /\ HoldsRSAKey(der) =>
                    /\ jwtResult.err.kind \in {"none", "signing"}
                    /\ jwtResult.err = NoError => jwtResult.token.signedBy = der.key.id
                /\ (der.encoding = "pkcs8" /\ der.algorithm # "rsa") =>
                        jwtResult.err = [kind |-> "keyNotRSA"]
                /\ der.encoding \notin {"pkcs1", "pkcs8"} =>
                        jwtResult.err = [kind |-> "keyParse"]
        /\ jwtResult.err # NoError =>
            /\ jwtResult.token = NoToken
            /\ listing = NotCalled
            /\ resolved.listCalls = 0
            /\ exchRequests = <<>>
            /\ ~child.started
            /\ Finished => exitStatus = Exited(1)

\* The first key block did not parse, a later one holds a key, and the run
\* ended with the parse error.
C25_Witness ==
    /\ Finished
    /\ privateKeyFile = File(<<Block("RSA PRIVATE KEY", NotDER),
                               Block("RSA PRIVATE KEY", Pkcs1(Key1))>>)
    /\ jwtResult.err = [kind |-> "keyParse"]
    /\ exchRequests = <<>>

\* The value of the child's GH_TOKEN entries.
ChildTokens ==
    {SubSeq(child.env[i], Len("GH_TOKEN=") + 1, Len(child.env[i])) :
        i \in EntriesNamed(child.env, "GH_TOKEN")}

\* C27: gh is never launched with a blank credential: whenever a child
\* process starts, the value of its GH_TOKEN is non-empty after trimming
\* white space; a whitespace-only token that the exchange step accepts is
\* stopped by the forwarder and the run ends with an error and exit code 1.
C27_NoBlankCredential ==
    /\ child.started =>
        /\ ChildTokens # {}
        /\ \A t \in ChildTokens : ~Blank(t)
    /\ (Finished /\ xpc = "done" /\ exchResult.err = NoError /\ Blank(exchResult.token)) =>
        /\ ~child.started
        /\ lookPathCalls = 0
        /\ LastLine(stderr) = ErrorLine(errEmptyToken)
        /\ exitStatus = Exited(1)

\* The exchange returned three spaces as the token and the run ended with
\* the empty-token error.
C27_Witness ==
    /\ Finished
    /\ exchResult = [token |-> "   ", err |-> NoError]
    /\ fwdResult.err = errEmptyToken
    /\ ~child.started
    /\ exitStatus = Exited(1)

\* All three answers are there and pass runConfigure's validation.
AnswersValid(lines, home) ==
    /\ Len(lines) >= 3
    /\ ValidID(TrimSpace(lines[1]))
    /\ TrimSpace(lines[2]) = "" \/ ValidID(TrimSpace(lines[2]))
    /\ TrimSpace(lines[3]) # ""
    /\ Stat(ExpandHome(TrimSpace(lines[3]), home)) = "regular"

RunsConfigure == pc = "start" /\ pc' = "exited" /\ Selected(osArgs') = "configure"

\* C28: a failed configure leaves the persisted configuration unchanged:
\* config.Save is reached only after the app id, the installation id and the
\* key path have been validated, an invalid answer or an early end of input
\* gives an error with exit code 1, and the config file keeps its contents
\* whenever configure fails.
C28_FailedConfigureKeepsFile ==
    [][RunsConfigure =>
        /\ cfgFile' # cfgFile => AnswersValid(stdinLines', userHome)
        /\ ~AnswersValid(stdinLines', userHome) =>
                (configured'.err # NoError /\ exitStatus' = Exited(1))
        /\ configured'.err # NoError =>
                (cfgFile' = cfgFile /\ exitStatus' = Exited(1))]_vars

-----------------------------------------------------------------------------
(* Claims about the update check, under SpecUpdate *)

\* A step that is one call of update.Check.
ChecksForUpdate == checkCount' = checkCount + 1

DaySeconds == 24 * 60 * 60

RealVersion(v) == v \notin {"", "dev"}

\* The cache file holds an entry that was younger than 24 hours when the
\* call that lastCheck' describes looked at it.
YoungEntry == updateCache.state = "entry" /\ lastCheck'.age < DaySeconds

\* (major, minor, patch) of the versions of the model.
VersionTriple ==
    [v \in {"", "1.2.3", "1.2.9-rc1", "1.9.0", "1.10.0", "v1.10.0", "2.0"} |->
        CASE v = "" -> <<0, 0, 0>>
          [] v = "1.2.3" -> <<1, 2, 3>>
          [] v = "1.2.9-rc1" -> <<1, 2, 9>>
          [] v = "1.9.0" -> <<1, 9, 0>>
          [] v \in {"1.10.0", "v1.10.0"} -> <<1, 10, 0>>
          [] v = "2.0" -> <<2, 0, 0>>]

\* a is greater than b in (major, minor, patch) order.
VersionGreater(a, b) ==
    LET x == VersionTriple[a]
        y == VersionTriple[b]
    IN  \/ x[1] > y[1]
        \/ x[1] = y[1] /\ x[2] > y[2]
        \/ x[1] = y[1] /\ x[2] = y[2] /\ x[3] > y[3]

\* The version a release response names: its tag without a leading v.
ReleaseVersion(resp) ==
    IF resp.body.tag # "" /\ CharAt(resp.body.tag, 1) = "v"
    THEN SubSeq(resp.body.tag, 2, Len(resp.body.tag))
    ELSE resp.body.tag

FetchSucceeded(resp) ==
    /\ resp.transport = "ok"
    /\ resp.status = 200
    /\ resp.readable
    /\ resp.body.json
    /\ ReleaseVersion(resp) # ""

\* The answers of a call that knows the version `latest`: nil, or latest
\* as the newer version.
AnswersFrom(latest) == {NoUpdate, Result(latest, version)}

\* C29 as stated: a call of Check with a real version made while a cache
\* entry younger than 24 hours exists makes no fetch and answers from the
\* cached version; a call with a missing, unreadable or older cache makes
\* exactly one fetch and, if it succeeds, rewrites the cache with the fetched
\* version and the current time; with the version dev or empty Check reads
\* no cache, makes no fetch and returns nil.
C29_CacheRewrittenAfterFetch ==
    [][ChecksForUpdate =>
        /\ ~RealVersion(version) =>
            /\ ~lastCheck'.read
            /\ lastCheck'.fetches = 0 /\ fetchCount' = fetchCount
            /\ lastCheck'.result = NoUpdate
        /\ (RealVersion(version) /\ YoungEntry) =>
            /\ lastCheck'.fetches = 0 /\ fetchCount' = fetchCount
            /\ lastCheck'.result \in AnswersFrom(updateCache.latest)
        /\ (RealVersion(version) /\ ~YoungEntry) =>
            /\ lastCheck'.fetches = 1 /\ fetchCount' = fetchCount + 1
            /\ FetchSucceeded(lastCheck'.fetched) =>
                updateCache' = CacheEntry(ReleaseVersion(lastCheck'.fetched), wallClock')
       ]_vars

\* C29 as amended: as stated, but after a successful fetch the cache is
\* written once with the fetched version and the current time and a failure
\* of that write is ignored: the cache file is then as it was or is left
\* without a readable entry; in every other case the cache file is as it was.
C29_CacheWrittenOnceAfterFetch ==
    [][ChecksForUpdate =>
        /\ ~RealVersion(version) =>
            /\ ~lastCheck'.read
            /\ lastCheck'.fetches = 0 /\ fetchCount' = fetchCount
            /\ lastCheck'.result = NoUpdate
            /\ updateCache' = updateCache
        /\ (RealVersion(version) /\ YoungEntry) =>
            /\ lastCheck'.fetches = 0 /\ fetchCount' = fetchCount
            /\ lastCheck'.result \in AnswersFrom(updateCache.latest)
            /\ updateCache' = updateCache
        /\ (RealVersion(version) /\ ~YoungEntry) =>
            /\ lastCheck'.fetches = 1 /\ fetchCount' = fetchCount + 1
            /\ FetchSucceeded(lastCheck'.fetched) =>
                /\ lastCheck'.wrote
                /\ \/ updateCache' = CacheEntry(ReleaseVersion(lastCheck'.fetched), wallClock')
                   \/ updateCache' = updateCache
                   \/ updateCache'.state = "garbage"
            /\ ~FetchSucceeded(lastCheck'.fetched) =>
                (~lastCheck'.wrote /\ updateCache' = updateCache)
       ]_vars

\* A first call fetched and wrote the cache; a later call, less than a day
\* after, answered from it without a fetch.
C29_Witness ==
    /\ checkCount >= 2
    /\ fetchCount = 1
    /\ lastCheck.version = "1.2.3"
    /\ lastCheck.fresh /\ lastCheck.age = 86399
    /\ lastCheck.fetches = 0
    /\ updateCache = CacheEntry("1.9.0", StartOfTime)
    /\ lastCheck.result = Result("1.9.0", "1.2.3")

\* C30: when the release fetch fails (transport error, status other than
\* 200, unreadable or unparsable body, empty tag) Check returns nil and
\* leaves the cache file exactly as it was; Check returns a Result only when
\* the latest version it knows is strictly greater than the current version
\* in (major, minor, patch) order, never when they are equal or the current
\* one is newer.
C30_FailedFetchAndStrictlyNewer ==
    [][ChecksForUpdate =>
        /\ (lastCheck'.fetches = 1 /\ ~FetchSucceeded(lastCheck'.fetched)) =>
            /\ lastCheck'.result = NoUpdate
            /\ updateCache' = updateCache
        /\ lastCheck'.result.found =>
            /\ lastCheck'.result.Current = version
            /\ lastCheck'.result.Latest =
                    IF lastCheck'.fetches = 1 THEN ReleaseVersion(lastCheck'.fetched)
                    ELSE updateCache.latest
            /\ VersionGreater(lastCheck'.result.Latest, version)
       ]_vars

-----------------------------------------------------------------------------
(* Claims about the update check of one invocation, under SpecRun *)

\* The error of the first step of the pipeline that failed, as run prints it.
PipelineError ==
    IF cpc = "loaded" /\ loaded.err # NoError THEN loaded.err
    ELSE IF jpc = "done" /\ jwtResult.err # NoError
    THEN [kind |-> "generatingJWT", cause |-> jwtResult.err]
    ELSE IF rpc = "resolved" /\ resolved.err # NoError THEN resolved.err
    ELSE IF xpc = "done" /\ exchResult.err # NoError
    THEN [kind |-> "gettingToken", cause |-> exchResult.err]
    ELSE IF fpc = "done" /\ fwdResult.returned /\ fwdResult.err # NoError THEN fwdResult.err
    ELSE NoError

PipelineLines == IF PipelineError # NoError THEN <<ErrorLine(PipelineError)>> ELSE <<>>

\* C21: the update check cannot change the outcome of the credential
\* pipeline: the override and gh's arguments, the loaded configuration, the
\* assertion, the resolved installation id, the token, the child's arguments
\* and environment and the exit code are what the pipeline's steps give for
\* the arguments, the configuration, the environment and the API responses
\* alone, whatever the update check returned, cached or failed with; the
\* check adds nothing but a notice on stderr, ahead of the pipeline's lines.
C21_UpdateCheckCannotChangeOutcome ==
    (ProxyRun /\ pc # "start") =>
        /\ rpc # "idle" =>
            /\ flagOverride = parseInstallationFlags(Tail(osArgs)).override
            /\ ghArgs = parseInstallationFlags(Tail(osArgs)).remaining
        /\ rpc \in {"env", "resolved"} =>
            envOverride = resolveInstallationFromEnv(ghaInstallationID, ghaOrg)
        /\ cpc = "loaded" => loaded = Load(userHome, cfgFile)
        /\ jpc = "done" =>
            \E t \in RunClockReadings :
                jwtResult = GenerateJWT(loaded.cfg.AppID, privateKeyFile, t)
        /\ rpc = "resolved" =>
            resolved = resolveInstallation(flagOverride, envOverride,
                                           loaded.cfg.InstallationID, listing)
        /\ xpc = "done" =>
            /\ exchRequests = <<TokenRequest(CompactJWT(jwtResult.token), resolved.id)>>
            /\ exchResult = GetInstallationToken(exchResponse)
        /\ fpc = "done" =>
            LET out == IF goos = "unix"
                       THEN ExecUnix(ghArgs, exchResult.token, environ, ghInstalled)
                       ELSE ExecWindows(ghArgs, exchResult.token, environ, ghInstalled)
            IN  /\ child = out.child
                /\ fwdResult = [returned |-> out.returned, err |-> out.err, exit |-> out.exit]
        /\ fpc # "done" => child = NoChild
        /\ stderr \in {PipelineLines, <<Notice>> \o PipelineLines}
        /\ stdout = <<>>
        /\ Finished =>
            exitStatus = Exited(IF PipelineError # NoError THEN 1
                                ELSE IF fwdResult.returned THEN 0
                                ELSE fwdResult.exit)

\* The update check found a newer version in its cache and printed the
\* notice; the pipeline then ran to the end and gh's exit status is the
\* invocation's.
C21_Witness ==
    /\ Finished /\ ProxyRun
    /\ lastCheck.result.found
    /\ stderr = <<Notice>>
    /\ resolved.err = NoError /\ resolved.id > 0
    /\ child.started
    /\ exitStatus = Exited(ghInstalled.exit)

====
